---- MODULE Spec2Model ----
(***************************************************************************)
(* A model of the ustate statechart interpreter: the state-value algebra   *)
(* (core/stateValue.ts), the transition engine (core/transition.ts), the   *)
(* machine builder (core/machine.ts), the actor runtime (core/actor.ts)    *)
(* and the invocation adapters (actors/invoke.ts).                         *)
(*                                                                         *)
(* A JavaScript object is modelled as the sequence of its entries in       *)
(* insertion order, because the order of the keys of a state value decides *)
(* the order in which the active paths are visited.                        *)
(***************************************************************************)
EXTENDS Integers, Sequences, FiniteSets, TLC

(***************************************************************************)
(* Sequences helpers                                                       *)
(***************************************************************************)
Range(s) == { s[i] : i \in DOMAIN s }

\* Array.prototype.slice(0, n)
Take(s, n) == IF n <= 0 THEN <<>> ELSE SubSeq(s, 1, IF n < Len(s) THEN n ELSE Len(s))

\* Array.prototype.slice(n)
Drop(s, n) == IF n >= Len(s) THEN <<>> ELSE SubSeq(s, n + 1, Len(s))

Reverse(s) == [i \in DOMAIN s |-> s[Len(s) + 1 - i]]

\* p.slice(0, q.length) equals q element by element
IsPrefix(q, p) == Len(q) <= Len(p) /\ Take(p, Len(q)) = q

RECURSIVE Concat(_)
Concat(ss) == IF ss = <<>> THEN <<>> ELSE Head(ss) \o Concat(Tail(ss))

\* insertion of the item x into a sequence of {path, ...} items ordered by path
\* length, after every item that does not come strictly after it
RECURSIVE InsertByDepth(_, _, _)
InsertByDepth(s, x, deepestFirst) ==
  IF s = <<>> THEN <<x>>
  ELSE IF (IF deepestFirst THEN Len(x) > Len(Head(s)) ELSE Len(x) < Len(Head(s)))
       THEN <<x>> \o s
       ELSE <<Head(s)>> \o InsertByDepth(Tail(s), x, deepestFirst)

\* Array.prototype.sort((a, b) => b.path.length - a.path.length) when
\* deepestFirst, (a, b) => a.path.length - b.path.length otherwise: a stable sort
RECURSIVE SortByDepth(_, _)
SortByDepth(s, deepestFirst) ==
  IF s = <<>> THEN <<>>
  ELSE InsertByDepth(SortByDepth(Take(s, Len(s) - 1), deepestFirst),
                     s[Len(s)], deepestFirst)

(***************************************************************************)
(* State values (core/types.ts StateValue): a string, or an object whose   *)
(* entries are kept in insertion order.  NoValue is JavaScript's undefined.*)
(***************************************************************************)
Leaf(n) == [t |-> "str", s |-> n, e |-> <<>>]
Obj(es) == [t |-> "obj", s |-> "", e |-> es]
NoValue == [t |-> "undef", s |-> "", e |-> <<>>]
Entry(k, v) == [k |-> k, v |-> v]

IsStr(v) == v.t = "str"
IsObj(v) == v.t = "obj"

HasKey(es, k) == \E i \in DOMAIN es : es[i].k = k
GetKey(es, k) == es[CHOOSE i \in DOMAIN es : es[i].k = k].v

\* obj[k] = v on an object: an existing key keeps its place, a new key is appended
PutKey(es, k, v) ==
  IF HasKey(es, k)
  THEN [i \in DOMAIN es |-> IF es[i].k = k THEN Entry(k, v) ELSE es[i]]
  ELSE Append(es, Entry(k, v))

RECURSIVE pathToStateValue(_)
pathToStateValue(path) ==
  IF Len(path) = 0 THEN Leaf("")
  ELSE IF Len(path) = 1 THEN Leaf(path[1])
  ELSE Obj(<<Entry(path[1], pathToStateValue(Tail(path)))>>)

RECURSIVE stateValueToPaths(_)
RECURSIVE EntriesToPaths(_)
EntriesToPaths(es) ==
  IF es = <<>> THEN <<>>
  ELSE LET childPaths == stateValueToPaths(Head(es).v)
       IN  [i \in DOMAIN childPaths |-> <<Head(es).k>> \o childPaths[i]]
             \o EntriesToPaths(Tail(es))

stateValueToPaths(value) ==
  IF IsStr(value) THEN << <<value.s>> >> ELSE EntriesToPaths(value.e)

\* a test string, kept as the segments that split(".") gives: it includes
\* a dot exactly when it has more than one segment
Text(segments) == [t |-> "text", segments |-> segments]

\* pathsMatch: the test path is a prefix of the current path
pathsMatch(currentPath, testPath) ==
  /\ Len(testPath) <= Len(currentPath)
  /\ \A i \in 1..Len(testPath) : currentPath[i] = testPath[i]

\* matchesStateValue(current, test) for a test string or a test state value
matchesStateValue(current, test) ==
  IF test.t = "text"
  THEN IF Len(test.segments) > 1
       THEN \E path \in Range(stateValueToPaths(current)) :
              pathsMatch(path, test.segments)
       ELSE \E path \in Range(stateValueToPaths(current)) :
              test.segments[1] \in Range(path)
  ELSE \A testPath \in Range(stateValueToPaths(test)) :
         \E currentPath \in Range(stateValueToPaths(current)) :
           pathsMatch(currentPath, testPath)

\* a variant in which the source wins for every key it has
RECURSIVE shallowMergeStateValues(_, _)
shallowMergeStateValues(target, source) ==
  IF source = <<>> THEN target
  ELSE shallowMergeStateValues(PutKey(target, Head(source).k, Head(source).v),
                               Tail(source))

RECURSIVE deepMergeStateValues(_, _)
deepMergeStateValues(target, source) ==
  IF source = <<>> THEN target
  ELSE LET key == Head(source).k
           value == Head(source).v
           merged ==
             IF HasKey(target, key)
             THEN LET targetValue == GetKey(target, key)
                  IN  IF IsObj(targetValue) /\ IsObj(value)
                      THEN PutKey(target, key,
                                  Obj(deepMergeStateValues(targetValue.e, value.e)))
                      ELSE PutKey(target, key, value)
             ELSE Append(target, Entry(key, value))
       IN  deepMergeStateValues(merged, Tail(source))

RECURSIVE MergeInto(_, _)
MergeInto(merged, values) ==
  IF values = <<>> THEN merged
  ELSE LET value == Head(values)
       IN  MergeInto(IF IsStr(value)
                     THEN PutKey(merged, value.s, Leaf(value.s))
                     ELSE deepMergeStateValues(merged, value.e),
                     Tail(values))

mergeStateValues(values) ==
  IF Len(values) = 0 THEN Leaf("")
  ELSE IF Len(values) = 1 THEN values[1]
  ELSE IF \A i \in DOMAIN values : IsStr(values[i]) THEN values[1]
  ELSE Obj(MergeInto(<<>>, values))

RECURSIVE getHistoryValue(_, _)
getHistoryValue(historyValue, type) ==
  IF type = "deep" THEN historyValue
  ELSE IF IsStr(historyValue) THEN historyValue
  ELSE IF Len(historyValue.e) = 0 THEN historyValue
  ELSE IF Len(historyValue.e) > 1
       THEN Obj([i \in DOMAIN historyValue.e |->
                   Entry(historyValue.e[i].k,
                         getHistoryValue(historyValue.e[i].v, "shallow"))])
  ELSE Leaf(historyValue.e[1].k)

RECURSIVE getValueAtPath(_, _)
getValueAtPath(value, path) ==
  IF path = <<>> THEN value
  ELSE IF IsObj(value) /\ HasKey(value.e, Head(path))
       THEN getValueAtPath(GetKey(value.e, Head(path)), Tail(path))
       ELSE NoValue

RECURSIVE wrapValueInPath(_, _)
wrapValueInPath(path, value) ==
  IF Len(path) = 0 THEN value
  ELSE Obj(<<Entry(Head(path), wrapValueInPath(Tail(path), value))>>)

(***************************************************************************)
(* Machine definitions (core/types.ts).  The tree of state nodes is kept   *)
(* as a map from the path of a node to its configuration; `states` lists   *)
(* the names of a node's children in declaration order.  An unset option   *)
(* is the empty string or the empty sequence.  A target string is kept as  *)
(* the sequence of its dot-separated segments.                             *)
(***************************************************************************)
Tr(target, actions, guard) == [target |-> target, actions |-> actions, guard |-> guard]

On(ev, ts) == [ev |-> ev, ts |-> ts]

After(key, ts) == [key |-> key, ts |-> ts]

Invoke(id, kind, onDone, onError, sync, emits) ==
  [id |-> id, kind |-> kind, onDone |-> onDone, onError |-> onError,
   sync |-> sync, emits |-> emits]

StateNodeConfig ==
  [type |-> "", initial |-> "", states |-> <<>>, history |-> "", target |-> <<>>,
   on |-> <<>>, always |-> <<>>, after |-> <<>>, entry |-> <<>>, exit |-> <<>>,
   invoke |-> <<>>]

HasOn(on, ev) == \E i \in DOMAIN on : on[i].ev = ev
GetOn(on, ev) == on[CHOOSE i \in DOMAIN on : on[i].ev = ev].ts
PutOn(on, ev, ts) ==
  IF HasOn(on, ev)
  THEN [i \in DOMAIN on |-> IF on[i].ev = ev THEN On(ev, ts) ELSE on[i]]
  ELSE Append(on, On(ev, ts))

DoneEvent(id) == "done.invoke." \o id
ErrorEvent(id) == "error.invoke." \o id

\* the `on` map of a state node after its invocations' onDone and onError
\* have been registered as ordinary event types
RECURSIVE registerInvokeTransitions(_, _)
registerInvokeTransitions(on, invocations) ==
  IF invocations = <<>> THEN on
  ELSE LET invocation == Head(invocations)
           withDone == IF invocation.onDone # <<>>
                       THEN PutOn(on, DoneEvent(invocation.id), invocation.onDone)
                       ELSE on
           withError == IF invocation.onError # <<>>
                        THEN PutOn(withDone, ErrorEvent(invocation.id), invocation.onError)
                        ELSE withDone
       IN  registerInvokeTransitions(withError, Tail(invocations))

\* the machine returned by the builder for a configuration and the
\* implementations given with it
createMachineWith(config, implementations) ==
  [implementations |-> implementations]
    @@ [config EXCEPT !.nodes =
          [p \in DOMAIN config.nodes |->
             [config.nodes[p] EXCEPT !.on =
                registerInvokeTransitions(config.nodes[p].on, config.nodes[p].invoke)]]]

\* validateStateNode does not throw for the node at a path: a compound node
\* has an initial state that is one of its children, and only a node with
\* children has an initial state
validateStateNode(config, path) ==
  LET stateNode == config.nodes[path]
  IN  /\ (stateNode.states # <<>> /\ stateNode.type # "parallel")
            => /\ stateNode.initial # ""
               /\ Append(path, stateNode.initial) \in DOMAIN config.nodes
      /\ stateNode.initial # "" => stateNode.states # <<>>

\* the builder does not throw for a configuration
Builds(config) ==
  /\ config.initial # ""
  /\ \E path \in DOMAIN config.nodes : Len(path) = 1
  /\ <<config.initial>> \in DOMAIN config.nodes
  /\ \A path \in DOMAIN config.nodes : validateStateNode(config, path)

\* no implementations given: every table is undefined
createMachine(config) ==
  createMachineWith(config, [actions |-> <<>>, guards |-> <<>>, delays |-> <<>>])

\* machine.provide: the same configuration built again with the actions and
\* the guards of the machine overlaid with the new ones, and nothing else
provide(machine, newImplementations) ==
  createMachineWith(machine,
    [actions |-> newImplementations.actions @@ machine.implementations.actions,
     guards |-> newImplementations.guards @@ machine.implementations.guards,
     delays |-> <<>>])

HasNode(machine, path) == path \in DOMAIN machine.nodes

\* getStateNodeByPath: the node at a path (HasNode tells whether it is null)
getStateNodeByPath(machine, path) == machine.nodes[path]

HasStates(node) == node.states # <<>>

\* the prefixes of a path that are nodes, from the top-level state down,
\* stopping at the first missing one
getStateNodesInPath(machine, path) ==
  LET n == CHOOSE k \in 0..Len(path) :
             /\ \A i \in 1..k : HasNode(machine, Take(path, i))
             /\ (k < Len(path) => ~HasNode(machine, Take(path, k + 1)))
  IN  [i \in 1..n |-> Take(path, i)]

RECURSIVE resolveInitialState(_, _)
resolveInitialState(machine, path) ==
  LET current == getStateNodeByPath(machine, path)
  IN  IF current.initial # "" /\ HasStates(current)
      THEN LET next == Append(path, current.initial)
           IN  IF HasNode(machine, next) THEN resolveInitialState(machine, next)
               ELSE next
      ELSE path

\* the key of the history store for a path: path.join("."), and back
\* (split(".")); the empty path comes back as the one-segment path [""]
SplitJoin(path) == IF path = <<>> THEN <<"">> ELSE path

NoHistory == [p \in {} |-> NoValue]
HasHistory(historyValue, path) ==
  path \in DOMAIN historyValue /\ historyValue[path] # Leaf("")

RECURSIVE recursiveResolve(_, _, _)
RECURSIVE resolveTarget(_, _, _)
RECURSIVE ResolveRegions(_, _, _, _)

ResolveRegions(machine, path, names, historyValue) ==
  IF names = <<>> THEN <<>>
  ELSE <<recursiveResolve(machine, Append(path, Head(names)), historyValue)>>
         \o ResolveRegions(machine, path, Tail(names), historyValue)

recursiveResolve(machine, path, historyValue) ==
  LET stateNode == getStateNodeByPath(machine, path)
      parentPath == Take(path, Len(path) - 1)
      rest ==
        IF ~HasStates(stateNode) THEN pathToStateValue(path)
        ELSE IF stateNode.type = "parallel"
             THEN mergeStateValues(
                    ResolveRegions(machine, path, stateNode.states, historyValue))
        ELSE IF stateNode.initial # ""
                  /\ HasNode(machine, Append(path, stateNode.initial))
             THEN recursiveResolve(machine, Append(path, stateNode.initial),
                                   historyValue)
        ELSE pathToStateValue(path)
  IN  IF stateNode.type = "history"
      THEN IF HasHistory(historyValue, parentPath)
           THEN wrapValueInPath(parentPath,
                  getHistoryValue(historyValue[parentPath],
                     IF stateNode.history = "deep" THEN "deep" ELSE "shallow"))
           ELSE IF stateNode.target # <<>>
                THEN resolveTarget(machine,
                       IF HasNode(machine, <<stateNode.target[1]>>)
                       THEN stateNode.target
                       ELSE parentPath \o stateNode.target,
                       historyValue)
           ELSE IF HasNode(machine, parentPath)
                     /\ getStateNodeByPath(machine, parentPath).initial # ""
                THEN resolveTarget(machine,
                       Append(parentPath,
                              getStateNodeByPath(machine, parentPath).initial),
                       historyValue)
           ELSE rest
      ELSE rest

resolveTarget(machine, targetPath, historyValue) ==
  IF ~HasNode(machine, targetPath) THEN pathToStateValue(targetPath)
  ELSE recursiveResolve(machine, targetPath, historyValue)

\* a variant that fills a missing region from its own recorded history
RECURSIVE MissingRegionsRecorded(_, _, _, _, _)
MissingRegionsRecorded(machine, path, names, current, historyValue) ==
  IF names = <<>> THEN <<>>
  ELSE LET regionKey == Head(names)
           regionPath == Append(path, regionKey)
           relative == IF HasHistory(historyValue, regionPath)
                       THEN historyValue[regionPath]
                       ELSE getValueAtPath(
                              recursiveResolve(machine, regionPath, historyValue),
                              regionPath)
       IN  (IF ~HasKey(current, regionKey) /\ relative # NoValue
            THEN <<Entry(regionKey, relative)>> ELSE <<>>)
             \o MissingRegionsRecorded(machine, path, Tail(names), current,
                                       historyValue)

\* the regions of a parallel node that are missing from its value, each
\* resolved and read back relative to the region
RECURSIVE MissingRegions(_, _, _, _, _)
MissingRegions(machine, path, names, current, historyValue) ==
  IF names = <<>> THEN <<>>
  ELSE LET regionKey == Head(names)
           regionPath == Append(path, regionKey)
           relative == getValueAtPath(
                         recursiveResolve(machine, regionPath, historyValue),
                         regionPath)
       IN  (IF ~HasKey(current, regionKey) /\ relative # NoValue
            THEN <<Entry(regionKey, relative)>> ELSE <<>>)
             \o MissingRegions(machine, path, Tail(names), current, historyValue)

RECURSIVE fillParallelStates(_, _, _, _)
fillParallelStates(machine, value, path, historyValue) ==
  IF IsObj(value)
  THEN Obj([i \in DOMAIN value.e |->
         LET key == value.e[i].k
             subValue == value.e[i].v
             nodePath == Append(path, key)
         IN  IF ~HasNode(machine, nodePath) THEN value.e[i]
             ELSE LET node == getStateNodeByPath(machine, nodePath)
                      filled ==
                        IF node.type = "parallel" /\ IsObj(subValue)
                        THEN Obj(subValue.e \o
                               MissingRegions(machine, nodePath, node.states,
                                              subValue.e, historyValue))
                        ELSE subValue
                  IN  Entry(key, fillParallelStates(machine, filled, nodePath,
                                                    historyValue))])
  ELSE value

completeStateValue(machine, stateValue, historyValue) ==
  fillParallelStates(machine, stateValue, <<>>, historyValue)

RECURSIVE InitialRegions(_, _, _)
InitialRegions(machine, path, names) ==
  IF names = <<>> THEN <<>>
  ELSE LET key == Head(names)
           childState == getStateNodeByPath(machine, Append(path, key))
       IN  <<Entry(key,
              IF childState.initial # "" /\ HasStates(childState)
              THEN pathToStateValue(
                     Drop(resolveInitialState(machine, Append(path, key)),
                          Len(path) + 1))
              ELSE Leaf(key))>>
             \o InitialRegions(machine, path, Tail(names))

getInitialStateValue(machine) ==
  LET top == <<machine.initial>>
  IN  IF ~HasNode(machine, top) THEN Leaf(machine.initial)
      ELSE LET initialState == getStateNodeByPath(machine, top)
           IN  IF initialState.type = "parallel" /\ HasStates(initialState)
               THEN Obj(<<Entry(machine.initial,
                                Obj(InitialRegions(machine, top,
                                                   initialState.states)))>>)
               ELSE pathToStateValue(resolveInitialState(machine, top))

(***************************************************************************)
(* Actions and guards.  The context is a record with one counter; the      *)
(* action "inc" is assign({count: count + 1}) up to MaxCount, "reset" is   *)
(* assign({count: 0}), every other action only leaves a trace.  The trace  *)
(* of a macro-step is the sequence of the actions it ran, each with the    *)
(* phase (exit, transition, entry) and the node it belongs to.             *)
(***************************************************************************)
MaxCount == 2

Event(type) == [type |-> type, key |-> -1]
DelayEvent(key) == [type |-> "$delay", key |-> key]

ApplyAction(action, context, event) ==
  IF action = "inc"
  THEN [context EXCEPT !.count = IF @ < MaxCount THEN @ + 1 ELSE @]
  ELSE IF action = "reset" THEN [context EXCEPT !.count = 0]
  ELSE context

evaluateGuard(guard, context, event) ==
  IF guard = "" THEN TRUE
  ELSE IF guard = "belowMax" THEN context.count < MaxCount
  ELSE IF guard = "atMax" THEN context.count = MaxCount
  ELSE IF guard = "never" THEN FALSE
  ELSE TRUE

Ran(phase, path, action, threw) ==
  [phase |-> phase, path |-> path, action |-> action, threw |-> threw]

\* the action function "boom" throws; an exception ends the computation it
\* is thrown in, so the action that threw is the last one of its trace
Throws(action) == action = "boom"
Threw(log) == log # <<>> /\ log[Len(log)].threw

\* a variant that registers the new actor in place of the one that has the id
spawnAgain(spawnedActors, actorId) ==
  [spawnedActors |-> (actorId :> IF actorId \in DOMAIN spawnedActors THEN 2 ELSE 1)
                       @@ spawnedActors,
   threw |-> FALSE]

\* the spawn function of an actor, called with an id: it throws when the
\* registry has the id, else the actor it creates and starts is registered
\* (the registry maps an id to the number of actors created under it)
spawn(spawnedActors, actorId) ==
  IF actorId \in DOMAIN spawnedActors
  THEN [spawnedActors |-> spawnedActors, threw |-> TRUE]
  ELSE [spawnedActors |-> (actorId :> 1) @@ spawnedActors, threw |-> FALSE]

\* resolveAction: a function is itself, a named action (greet is the one
\* action written {type: name} in the machines below) is what the
\* implementations give for it, "" (null) when they give nothing
resolveAction(action, implementations) ==
  IF action # "greet" THEN action
  ELSE IF action \in DOMAIN implementations.actions
  THEN implementations.actions[action]
  ELSE ""

\* executeActions on the execution record x = {context, log, spawned}; an
\* action that resolves to nothing is skipped, the action spawnWorker calls
\* spawn(childMachine, {id: "worker"}), and nothing runs once an action has
\* thrown
RECURSIVE executeActions(_, _, _, _, _, _)
executeActions(actions, x, event, phase, path, implementations) ==
  IF actions = <<>> \/ Threw(x.log) THEN x
  ELSE executeActions(Tail(actions),
         IF resolveAction(Head(actions), implementations) = "" THEN x
         ELSE IF resolveAction(Head(actions), implementations) = "spawnWorker"
         THEN [x EXCEPT !.spawned = spawn(@, "worker").spawnedActors,
                        !.log = Append(@, Ran(phase, path, "spawnWorker",
                                              spawn(x.spawned, "worker").threw))]
         ELSE [x EXCEPT !.context = ApplyAction(resolveAction(Head(actions), implementations),
                                                @, event),
                        !.log = Append(@, Ran(phase, path,
                                              resolveAction(Head(actions), implementations),
                                              Throws(resolveAction(Head(actions),
                                                                   implementations))))],
         event, phase, path, implementations)

\* the index of the first descriptor whose guard passes, 0 when there is none
findValidTransition(definition, context, event) ==
  IF \E i \in DOMAIN definition : evaluateGuard(definition[i].guard, context, event)
  THEN CHOOSE i \in DOMAIN definition :
         /\ evaluateGuard(definition[i].guard, context, event)
         /\ \A j \in 1..(i - 1) : ~evaluateGuard(definition[j].guard, context, event)
  ELSE 0

HasAfter(after, key) == \E i \in DOMAIN after : after[i].key = key
GetAfter(after, key) == after[CHOOSE i \in DOMAIN after : after[i].key = key].ts

NotFound == [found |-> FALSE, transition |-> Tr(<<>>, <<>>, ""), fromPath |-> <<>>]
Found(definition, i, path) ==
  [found |-> TRUE, transition |-> definition[i], fromPath |-> path]

\* the descriptor picked from a definition, or what the search turns to next
Select(definition, i, path, otherwise) ==
  IF i > 0 THEN Found(definition, i, path) ELSE otherwise

OrElse(here, otherwise) == IF here.found THEN here ELSE otherwise

\* the definitions a node offers for an event: its `on` entry for the event
\* type, and its `after` entry for the key of a $delay event
OnFor(stateNode, event) ==
  IF HasOn(stateNode.on, event.type) THEN GetOn(stateNode.on, event.type) ELSE <<>>

AfterFor(stateNode, event) ==
  IF stateNode.after # <<>> /\ event.type = "$delay" /\ event.key # -1
       /\ HasAfter(stateNode.after, event.key)
  THEN GetAfter(stateNode.after, event.key) ELSE <<>>

\* the transition of one node for an event: its `always` list first, then
\* its `on` entry, then its `after` entry
FindAtNode(stateNode, currentPath, event, context) ==
  Select(stateNode.always,
         findValidTransition(stateNode.always, context, event), currentPath,
    Select(OnFor(stateNode, event),
           findValidTransition(OnFor(stateNode, event), context, event), currentPath,
      Select(AfterFor(stateNode, event),
             findValidTransition(AfterFor(stateNode, event), context, event),
             currentPath, NotFound)))

RECURSIVE FindFromLevel(_, _, _, _, _)
FindFromLevel(machine, path, i, event, context) ==
  IF i = 0 THEN NotFound
  ELSE OrElse(IF HasNode(machine, Take(path, i))
              THEN FindAtNode(getStateNodeByPath(machine, Take(path, i)),
                              Take(path, i), event, context)
              ELSE NotFound,
              FindFromLevel(machine, path, i - 1, event, context))

findTransitionInPath(machine, path, event, context) ==
  FindFromLevel(machine, path, Len(path), event, context)

(***************************************************************************)
(* computeTransition (core/transition.ts)                                  *)
(***************************************************************************)
\* a sequence without the later occurrences of its elements (the visited sets)
RECURSIVE Dedupe(_)
Dedupe(s) ==
  IF s = <<>> THEN <<>>
  ELSE LET init == Dedupe(Take(s, Len(s) - 1))
       IN  IF s[Len(s)] \in Range(init) THEN init ELSE Append(init, s[Len(s)])

\* the prefixes of p of length hi down to lo (leaf first)
PrefixesDown(p, hi, lo) ==
  IF hi < lo THEN <<>> ELSE [j \in 1..(hi - lo + 1) |-> Take(p, hi - j + 1)]

\* the prefixes of p of length lo up to hi (root first)
PrefixesUp(p, lo, hi) ==
  IF hi < lo THEN <<>> ELSE [j \in 1..(hi - lo + 1) |-> Take(p, lo + j - 1)]

RECURSIVE RunNodeActions(_, _, _, _, _)
RunNodeActions(machine, paths, x, event, phase) ==
  IF paths = <<>> THEN x
  ELSE LET config == getStateNodeByPath(machine, Head(paths))
       IN  RunNodeActions(machine, Tail(paths),
             executeActions(IF phase = "exit" THEN config.exit ELSE config.entry,
                            x, event, phase, Head(paths), machine.implementations),
             event, phase)

CommonPrefixLength(fromPath, fullTargetPath) ==
  CHOOSE n \in 0..Len(fromPath) :
    /\ n <= Len(fullTargetPath)
    /\ \A i \in 1..n : fromPath[i] = fullTargetPath[i]
    /\ (n < Len(fromPath) /\ n < Len(fullTargetPath)
          => fromPath[n + 1] # fullTargetPath[n + 1])

\* the target path of a selected transition: the source itself when the
\* descriptor has no target, the target read from the root when its first
\* segment names a top-level state, else the target beside the source
FullTargetPath(machine, transition, fromPath) ==
  IF transition.target # <<>>
  THEN IF HasNode(machine, <<transition.target[1]>>)
       THEN transition.target
       ELSE Take(fromPath, Len(fromPath) - 1) \o transition.target
  ELSE fromPath

\* a variant that always steps one level above the common prefix
LcaIndexAbove(fromPath, fullTargetPath) ==
  LET lcaIndex == CommonPrefixLength(fromPath, fullTargetPath)
  IN  IF lcaIndex > 0 THEN lcaIndex - 1 ELSE lcaIndex

\* "Handle external transition on self/ancestor"
LcaIndex(fromPath, fullTargetPath) ==
  LET lcaIndex == CommonPrefixLength(fromPath, fullTargetPath)
  IN  IF lcaIndex = Len(fromPath) THEN lcaIndex - 1 ELSE lcaIndex

IsAffected(p, lcaPath) == Len(p) >= Len(lcaPath) /\ IsPrefix(lcaPath, p)

\* "Capture history for exited states"
CaptureHistory(machine, currentState, affectedCurrentPaths, lcaIndex, historyValue) ==
  LET exitedPathsSet ==
        UNION { { Take(p, i) : i \in lcaIndex..Len(p) } :
                p \in Range(affectedCurrentPaths) }
      recorded ==
        { q \in exitedPathsSet :
            /\ HasNode(machine, SplitJoin(q))
            /\ LET stateNode == getStateNodeByPath(machine, q)
               IN  stateNode.type = "compound" \/ stateNode.type = "parallel"
                     \/ HasStates(stateNode)
            /\ getValueAtPath(currentState, q) # NoValue }
  IN  [q \in (DOMAIN historyValue) \cup recorded |->
         IF q \in recorded THEN getValueAtPath(currentState, q)
         ELSE historyValue[q]]

\* "Collect exit actions": the nodes to exit, deepest first
NodesToExit(machine, affectedCurrentPaths, lcaIndex) ==
  LET collected ==
        Dedupe(Concat([i \in DOMAIN affectedCurrentPaths |->
                 PrefixesDown(affectedCurrentPaths[i],
                              Len(affectedCurrentPaths[i]), lcaIndex + 1)]))
  IN  SortByDepth(SelectSeq(collected, LAMBDA q : HasNode(machine, q)), TRUE)

\* "Collect entry actions": the nodes to enter, shallowest first
NodesToEnter(machine, affectedNextPaths, lcaIndex) ==
  LET collected ==
        Dedupe(Concat([i \in DOMAIN affectedNextPaths |->
                 PrefixesUp(affectedNextPaths[i], lcaIndex + 1,
                            Len(affectedNextPaths[i]))]))
  IN  SortByDepth(SelectSeq(collected, LAMBDA q : HasNode(machine, q)), FALSE)

\* "Construct Final State"
FinalState(machine, currentPaths, lcaPath, nextStateValue, newHistoryValue) ==
  LET unaffectedPaths == SelectSeq(currentPaths, LAMBDA p : ~IsAffected(p, lcaPath))
      unaffectedStateValues ==
        [i \in DOMAIN unaffectedPaths |-> pathToStateValue(unaffectedPaths[i])]
  IN  completeStateValue(machine,
        mergeStateValues(Append(unaffectedStateValues, nextStateValue)),
        newHistoryValue)

\* what computeTransition returns, with the trace x of the actions it ran
Outcome(x, nextState, historyValue, hasHistoryValue, fromPath, hasTarget, global, exited, entered) ==
  [nextState |-> nextState,
   nextContext |-> x.context,
   changed |-> TRUE,
   hasHistoryValue |-> hasHistoryValue,
   historyValue |-> historyValue,
   log |-> x.log,
   spawned |-> x.spawned,
   fromPath |-> fromPath,
   hasTarget |-> hasTarget,
   global |-> global,
   exited |-> exited,
   entered |-> entered]

\* the transition selected at an active node (lines 377-551), in the order
\* of the code: the target and the LCA,
Locate(t, fullTargetPath) ==
  [fullTargetPath |-> fullTargetPath,
   lcaIndex |-> LcaIndex(t.fromPath, fullTargetPath),
   nextStateValue |-> resolveTarget(t.machine, fullTargetPath, t.historyValue)] @@ t

\* the affected paths of the current and of the next state value,
Affect(t) ==
  [lcaPath |-> Take(t.fromPath, t.lcaIndex),
   affectedCurrentPaths |->
     SelectSeq(t.currentPaths,
               LAMBDA p : IsAffected(p, Take(t.fromPath, t.lcaIndex))),
   affectedNextPaths |->
     SelectSeq(stateValueToPaths(t.nextStateValue),
               LAMBDA p : IsAffected(p, Take(t.fromPath, t.lcaIndex)))] @@ t

\* the history captured and the exit and entry sets,
Collect(t) ==
  [newHistoryValue |-> CaptureHistory(t.machine, t.currentState,
                                      t.affectedCurrentPaths, t.lcaIndex,
                                      t.historyValue),
   nodesToExit |-> NodesToExit(t.machine, t.affectedCurrentPaths, t.lcaIndex),
   nodesToEnter |-> NodesToEnter(t.machine, t.affectedNextPaths, t.lcaIndex)] @@ t

\* and the exit, transition and entry actions, then the final state
Execute(t) ==
  Outcome(RunNodeActions(t.machine, t.nodesToEnter,
            executeActions(t.transition.actions,
              RunNodeActions(t.machine, t.nodesToExit,
                             [context |-> t.currentContext, log |-> <<>>,
                              spawned |-> t.spawn],
                             t.event, "exit"),
              t.event, "transition", t.fromPath, t.machine.implementations),
            t.event, "entry"),
          FinalState(t.machine, t.currentPaths, t.lcaPath, t.nextStateValue,
                     t.newHistoryValue),
          t.newHistoryValue, TRUE, t.fromPath, t.transition.target # <<>>, FALSE,
          t.nodesToExit, t.nodesToEnter)

TakeTransition(machine, currentState, currentContext, event, historyValue, spawnFn, result) ==
  Execute(Collect(Affect(Locate(
    [machine |-> machine, currentState |-> currentState,
     currentPaths |-> stateValueToPaths(currentState),
     currentContext |-> currentContext, event |-> event,
     historyValue |-> historyValue, spawn |-> spawnFn,
     transition |-> result.transition, fromPath |-> result.fromPath],
    FullTargetPath(machine, result.transition, result.fromPath)))))

\* "Try global transitions" (lines 554-617)
RECURSIVE ExitAllPaths(_, _, _, _)
ExitAllPaths(machine, paths, x, event) ==
  IF paths = <<>> THEN x
  ELSE ExitAllPaths(machine, Tail(paths),
         RunNodeActions(machine, Reverse(getStateNodesInPath(machine, Head(paths))),
                        x, event, "exit"),
         event)

GlobalExited(machine, currentPaths) ==
  Concat([k \in DOMAIN currentPaths |->
            Reverse(getStateNodesInPath(machine, currentPaths[k]))])

EnterGlobalTarget(machine, event, historyValue, currentPaths, resolvedPath, x) ==
  Outcome(RunNodeActions(machine, getStateNodesInPath(machine, resolvedPath), x,
                         event, "entry"),
          pathToStateValue(resolvedPath), historyValue, FALSE, <<>>, TRUE, TRUE,
          GlobalExited(machine, currentPaths),
          getStateNodesInPath(machine, resolvedPath))

TakeGlobalTransition(machine, currentState, currentContext, event, historyValue, spawnFn, globalTransition) ==
  EnterGlobalTarget(machine, event, historyValue, stateValueToPaths(currentState),
    IF HasNode(machine, globalTransition.target)
    THEN resolveInitialState(machine, globalTransition.target)
    ELSE globalTransition.target,
    executeActions(globalTransition.actions,
      ExitAllPaths(machine, stateValueToPaths(currentState),
                   [context |-> currentContext, log |-> <<>>, spawned |-> spawnFn], event),
      event, "transition", <<>>, machine.implementations))

\* "No transition found"
NoTransition(currentState, currentContext, historyValue, spawnFn) ==
  [nextState |-> currentState,
   nextContext |-> currentContext,
   changed |-> FALSE,
   hasHistoryValue |-> FALSE,
   historyValue |-> historyValue,
   log |-> <<>>,
   spawned |-> spawnFn,
   fromPath |-> <<>>,
   hasTarget |-> FALSE,
   global |-> FALSE,
   exited |-> <<>>,
   entered |-> <<>>]

\* the loop over the active paths: the first path on which a node has a
\* transition for the event decides
RECURSIVE FindInPaths(_, _, _, _)
FindInPaths(machine, currentPaths, event, currentContext) ==
  IF currentPaths = <<>> THEN NotFound
  ELSE OrElse(findTransitionInPath(machine, Head(currentPaths), event, currentContext),
              FindInPaths(machine, Tail(currentPaths), event, currentContext))

\* the descriptor of the root-level `on` map for the event
FindGlobal(machine, event, currentContext) ==
  Select(OnFor(machine, event),
         findValidTransition(OnFor(machine, event), currentContext, event),
         <<>>, NotFound)

Dispatch(machine, currentState, currentContext, event, historyValue, spawnFn, result, globalResult) ==
  IF result.found
  THEN TakeTransition(machine, currentState, currentContext, event, historyValue, spawnFn,
                      result)
  ELSE IF globalResult.found /\ globalResult.transition.target # <<>>
       THEN TakeGlobalTransition(machine, currentState, currentContext, event,
                                 historyValue, spawnFn, globalResult.transition)
  ELSE NoTransition(currentState, currentContext, historyValue, spawnFn)

computeTransition(machine, currentState, currentContext, event, historyValue, spawnFn) ==
  Dispatch(machine, currentState, currentContext, event, historyValue, spawnFn,
           FindInPaths(machine, stateValueToPaths(currentState), event, currentContext),
           FindGlobal(machine, event, currentContext))

(***************************************************************************)
(* The actor runtime (core/actor.ts).  The closure variables of createActor*)
(* are the fields of the record `a` that the handlers pass along:          *)
(*   currentState, currentContext, historyValue, started, observers,       *)
(*   invokedActors and delayedTransitions (maps, as entries in insertion   *)
(*   order, from a path to the handles registered for it),                 *)
(* together with the host's side of it:                                    *)
(*   timers    the pending setTimeout callbacks in creation order, each    *)
(*             with the delay key it delivers and the time left,           *)
(*   children  the adapters created by createInvokedActor, by handle,      *)
(* and what a run of a handler leaves behind for inspection:               *)
(*   log       the actions run, each tagged with the micro-step it ran in, *)
(*   steps     the transitions taken, in order,                            *)
(*   notified  the snapshots handed to the observers,                      *)
(*   micro     the number of transitions taken,                            *)
(*   created, halted    the invocations started and stopped (by path),     *)
(*   scheduled, cleared the paths whose timers were set and cancelled.     *)
(***************************************************************************)
AlwaysCap == 100

DelKey(es, k) == SelectSeq(es, LAMBDA en : en.k # k)

\* previousState !== currentState: strings compare by value, objects by
\* identity, and a state value computed by a transition is a fresh object
RefDiffers(previousState, currentState) ==
  ~(IsStr(previousState) /\ IsStr(currentState) /\ previousState.s = currentState.s)

\* canHandle: the node its walk down a path ends at (<<>> when it ends at
\* no node): the walk stops early at a node without children
RECURSIVE WalkTo(_, _, _)
WalkTo(machine, currentPath, j) ==
  IF ~HasNode(machine, Take(currentPath, j)) THEN <<>>
  ELSE IF j = Len(currentPath) THEN currentPath
  ELSE IF ~HasStates(getStateNodeByPath(machine, Take(currentPath, j)))
       THEN Take(currentPath, j)
  ELSE WalkTo(machine, currentPath, j + 1)

\* canHandle(event): some node on an active path, or the root, has an `on`
\* entry for the event type
canHandle(machine, value, event) ==
  \/ \E path \in Range(stateValueToPaths(value)) :
       \E i \in 1..Len(path) :
         /\ WalkTo(machine, Take(path, i), 1) # <<>>
         /\ HasOn(getStateNodeByPath(machine, WalkTo(machine, Take(path, i), 1)).on,
                  event.type)
  \/ HasOn(machine.on, event.type)

\* the least handle not in use
FreshHandle(used) == CHOOSE h \in 1..(Cardinality(used) + 1) : h \notin used

Snapshot(a) ==
  [value |-> a.currentState, context |-> a.currentContext,
   to |-> a.observers,
   invoked |-> { a.invokedActors[i].k : i \in DOMAIN a.invokedActors },
   delayed |-> { a.delayedTransitions[i].k : i \in DOMAIN a.delayedTransitions },
   micro |-> a.micro]

notify(a) ==
  IF a.observers = {} \/ a.raised THEN a
  ELSE [a EXCEPT !.notified = Append(@, Snapshot(a))]

\* the paths of the active nodes, in the insertion order of the Set built
\* from the active paths (each path's prefixes, root first)
ActivePaths(value) ==
  LET paths == stateValueToPaths(value)
  IN  Dedupe(Concat([i \in DOMAIN paths |-> PrefixesUp(paths[i], 1, Len(paths[i]))]))

resolveDelay(key) == key

RECURSIVE ScheduleTimers(_, _, _)
ScheduleTimers(timers, keys, ids) ==
  IF keys = <<>> THEN [timers |-> timers, ids |-> ids]
  ELSE LET id == FreshHandle({ timers[i].id : i \in DOMAIN timers })
       IN  ScheduleTimers(
             Append(timers, [id |-> id, key |-> Head(keys),
                             left |-> resolveDelay(Head(keys))]),
             Tail(keys), Append(ids, id))

RECURSIVE processEvent(_, _)

\* a variant that runs a timer of delay zero at once instead of queueing it
startDelaysInline(a, path) ==
  LET stateNode == getStateNodeByPath(a.machine, path)
      due == { i \in DOMAIN stateNode.after : resolveDelay(stateNode.after[i].key) = 0 }
      scheduled == ScheduleTimers(a.timers,
                     [i \in DOMAIN stateNode.after |-> stateNode.after[i].key], <<>>)
      queued == [a EXCEPT !.timers = scheduled.timers,
                          !.delayedTransitions = PutKey(@, path, scheduled.ids),
                          !.scheduled = Append(@, path)]
  IN  IF stateNode.after # <<>> /\ ~a.raised
      THEN IF due # {}
           THEN processEvent(queued, DelayEvent(0))
           ELSE queued
      ELSE a

startDelays(a, path) ==
  LET stateNode == getStateNodeByPath(a.machine, path)
      scheduled == ScheduleTimers(a.timers,
                     [i \in DOMAIN stateNode.after |-> stateNode.after[i].key], <<>>)
  IN  IF stateNode.after # <<>> /\ ~a.raised
      THEN [a EXCEPT !.timers = scheduled.timers,
                     !.delayedTransitions = PutKey(@, path, scheduled.ids),
                     !.scheduled = Append(@, path)]
      ELSE a

stopDelays(a, path) ==
  IF HasKey(a.delayedTransitions, path)
  THEN LET ids == Range(GetKey(a.delayedTransitions, path))
       IN  [a EXCEPT !.timers = SelectSeq(@, LAMBDA tm : tm.id \notin ids),
                     !.delayedTransitions = DelKey(@, path),
                     !.cleared = Append(@, path)]
  ELSE a

\* actor.stop() of every adapter registered for a path: the adapter is
\* marked stopped; one that has nothing left to do is forgotten
StopChildren(children, handles) ==
  LET live == { h \in DOMAIN children :
                  ~(h \in handles /\ children[h].kind = "callback"
                      /\ children[h].emits = <<>>) }
  IN  [h \in live |-> IF h \in handles THEN [children[h] EXCEPT !.stopped = TRUE]
                      ELSE children[h]]

RECURSIVE processAlways(_, _, _)
RECURSIVE handleInvokedActors(_, _, _, _)
RECURSIVE StopExited(_, _, _)
RECURSIVE StopExitedAll(_, _, _)
RECURSIVE StartEntered(_, _, _, _)
RECURSIVE startInvocations(_, _, _)
RECURSIVE CreateActors(_, _, _, _)
RECURSIVE EmitAll(_, _)

\* sendBack of each event in turn by an adapter that is not stopped
EmitAll(a, types) ==
  IF types = <<>> THEN a
  ELSE EmitAll(processEvent(a, Event(Head(types))), Tail(types))

\* the adapter returned by createInvokedActor, under the least free handle
Adopt(a, config, path, actors) ==
  IF a.raised THEN [a |-> a, actors |-> actors]
  ELSE
  [a |-> [a EXCEPT
            !.children =
              (FreshHandle(DOMAIN a.children) :>
                 [id |-> config.id, kind |-> config.kind, path |-> path,
                  stopped |-> FALSE, orphaned |-> FALSE,
                  hasOnDone |-> config.onDone # <<>>,
                  hasOnError |-> config.onError # <<>>,
                  emits |-> IF config.kind = "callback" THEN config.emits ELSE <<>>])
              @@ @,
            !.created = Append(@, path)],
   actors |-> Append(actors, FreshHandle(DOMAIN a.children))]

\* the try/catch around the logic of a callback adapter: what it throws is
\* reported to the parent as the invocation's error event, if it has onError
Caught(a, config) ==
  IF ~a.raised THEN a
  ELSE IF config.onError # <<>>
       THEN processEvent([a EXCEPT !.raised = FALSE], Event(ErrorEvent(config.id)))
  ELSE [a EXCEPT !.raised = FALSE]

\* createInvokedActor for each invocation of a node in turn; a callback
\* logic runs at once and may call sendBack before it returns
CreateActors(r, invocations, path, event) ==
  IF invocations = <<>> \/ r.a.raised THEN r
  ELSE CreateActors(
         Adopt(IF Head(invocations).kind = "callback"
               THEN Caught(EmitAll(r.a, Head(invocations).sync), Head(invocations))
               ELSE r.a,
               Head(invocations), path, r.actors),
         Tail(invocations), path, event)

\* "if (actors.length > 0) invokedActors.set(pathStr, actors)"
Register(r, path) ==
  IF r.actors # <<>> /\ ~r.a.raised
  THEN [r.a EXCEPT !.invokedActors = PutKey(@, path, r.actors)]
  ELSE r.a

startInvocations(a, path, event) ==
  notify(Register(CreateActors([a |-> a, actors |-> <<>>],
                               getStateNodeByPath(a.machine, path).invoke,
                               path, event),
                  path))

\* actor.stop() of the adapters registered for a path, and its removal
StopInvoked(a, path) ==
  IF HasKey(a.invokedActors, path)
  THEN [a EXCEPT !.children = StopChildren(@, Range(GetKey(a.invokedActors, path))),
                 !.invokedActors = DelKey(@, path),
                 !.halted = Append(@, path)]
  ELSE a

\* a variant that stops the invocations and timers of every node that was
\* active, whether or not it stays active
StopExitedAll(a, prevActive, nextActive) ==
  IF prevActive = <<>> \/ a.raised THEN a
  ELSE StopExitedAll(stopDelays(StopInvoked(a, Head(prevActive)), Head(prevActive)),
                     Tail(prevActive), nextActive)

\* "Stop invocations from exited states"
StopExited(a, prevActive, nextActive) ==
  IF prevActive = <<>> \/ a.raised THEN a
  ELSE StopExited(IF Head(prevActive) \in Range(nextActive) THEN a
                  ELSE stopDelays(StopInvoked(a, Head(prevActive)), Head(prevActive)),
                  Tail(prevActive), nextActive)

\* "Start invocations for entered states"
StartEntered(a, nextActive, prevActive, event) ==
  IF nextActive = <<>> \/ a.raised THEN a
  ELSE StartEntered(
         IF Head(nextActive) \notin Range(prevActive)
              /\ HasNode(a.machine, Head(nextActive))
         THEN startDelays(
                IF getStateNodeByPath(a.machine, Head(nextActive)).invoke # <<>>
                THEN startInvocations(a, Head(nextActive), event) ELSE a,
                Head(nextActive))
         ELSE a,
         Tail(nextActive), prevActive, event)

handleInvokedActors(a, previousState, newState, event) ==
  StartEntered(StopExited(a, ActivePaths(previousState), ActivePaths(newState)),
               ActivePaths(newState), ActivePaths(previousState), event)

\* computeTransition threw: no assignment follows it, the copy of the context
\* it worked on is dropped, and the exception goes to the caller
Raise(a, result) ==
  [a EXCEPT !.raised = TRUE,
            !.spawnedActors = result.spawned,
            !.log = @ \o [i \in DOMAIN result.log |->
                            [phase |-> result.log[i].phase, path |-> result.log[i].path,
                             action |-> result.log[i].action, micro |-> a.micro + 1]]]

\* the assignments that follow a computeTransition call, and the trace of it
Publish(a, result, event) ==
  [a EXCEPT !.currentState = result.nextState,
            !.currentContext = result.nextContext,
            !.spawnedActors = result.spawned,
            !.historyValue = IF result.hasHistoryValue THEN result.historyValue ELSE @,
            !.log = @ \o [i \in DOMAIN result.log |->
                            [phase |-> result.log[i].phase, path |-> result.log[i].path,
                             action |-> result.log[i].action, micro |-> a.micro + 1]],
            !.steps = IF result.changed
                      THEN Append(@, [fromPath |-> result.fromPath,
                                      hasTarget |-> result.hasTarget,
                                      global |-> result.global,
                                      event |-> event,
                                      context |-> a.currentContext,
                                      nextContext |-> result.nextContext,
                                      before |-> a.currentState,
                                      after |-> result.nextState,
                                      exited |-> result.exited,
                                      entered |-> result.entered])
                      ELSE @,
            !.micro = IF result.changed THEN @ + 1 ELSE @,
            !.children = [h \in DOMAIN @ |->
                            IF @[h].path \in Range(result.exited)
                            THEN [@[h] EXCEPT !.orphaned = TRUE] ELSE @[h]]]

\* actor.send({type: "READY"}) by each "sendReady" action that ran in a
\* computeTransition call: processEvent runs to its end inside the call
RECURSIVE Reentered(_, _)
Reentered(a, log) ==
  IF log = <<>> THEN a
  ELSE Reentered(IF Head(log).action = "sendReady"
                 THEN processEvent(a, Event("READY")) ELSE a,
                 Tail(log))

\* the actor when computeTransition returns to a handler that read
\* currentState and currentContext before the call and assigns both after it
Resumed(a, result) ==
  [Reentered(a, result.log) EXCEPT !.currentState = a.currentState,
                                   !.currentContext = a.currentContext]

\* one round of the loop of processAlways, given what computeTransition
\* returned: a round that takes no transition leaves everything as it is
\* (keepGoing = false), and so would every round after it
AlwaysStep(a, triggerEvent, result) ==
  IF Threw(result.log) THEN Raise(Reentered(a, result.log), result)
  ELSE IF result.changed
  THEN handleInvokedActors(Publish(Resumed(a, result), result,
                                   [triggerEvent EXCEPT !.type = "$$always"]),
                           a.currentState, result.nextState, triggerEvent)
  ELSE Reentered(a, result.log)

\* what computeTransition returns for the transient event of a round
Transient(a, triggerEvent) ==
  computeTransition(a.machine, a.currentState, a.currentContext,
                    [triggerEvent EXCEPT !.type = "$$always"], a.historyValue,
                    a.spawnedActors)

\* up to n rounds of the loop: none once a round finds no transition
\* (keepGoing = false), else the first half of them and then the rest
RECURSIVE AlwaysRounds(_, _, _)
AlwaysRounds(a, triggerEvent, n) ==
  IF n <= 0 \/ a.raised \/ ~Transient(a, triggerEvent).changed THEN a
  ELSE IF n = 1 THEN AlwaysStep(a, triggerEvent, Transient(a, triggerEvent))
  ELSE AlwaysRounds(AlwaysRounds(a, triggerEvent, n \div 2), triggerEvent,
                    n - (n \div 2))

\* a variant whose loop test lets one more round through
processAlwaysLate(a, triggerEvent, steps) ==
  AlwaysRounds(a, triggerEvent, AlwaysCap + 1 - steps)

\* "while (keepGoing && steps < 100)", entered with `steps` rounds done
processAlways(a, triggerEvent, steps) ==
  AlwaysRounds(a, triggerEvent, AlwaysCap - steps)

\* "Handle invoked actors if state changed"
Reconcile(published, previousState, event) ==
  IF RefDiffers(previousState, published.currentState)
  THEN handleInvokedActors(published, previousState, published.currentState, event)
  ELSE published

\* processEvent after its computeTransition call
EventStep(a, event, result) ==
  IF Threw(result.log) THEN Raise(Reentered(a, result.log), result)
  ELSE IF result.changed
  THEN processAlways(Reconcile(Publish(Resumed(a, result), result, event),
                               a.currentState, event),
                     event, 0)
  ELSE Publish(Resumed(a, result), result, event)

\* a variant that does not look at the started flag
processEventAnyway(a, event) ==
  IF a.raised THEN a
  ELSE EventStep(a, event,
         computeTransition(a.machine, a.currentState, a.currentContext, event,
                           a.historyValue, a.spawnedActors))

processEvent(a, event) ==
  IF ~a.started \/ a.raised THEN a
  ELSE EventStep(a, event,
         computeTransition(a.machine, a.currentState, a.currentContext, event,
                           a.historyValue, a.spawnedActors))

RECURSIVE EnterInitial(_, _)
\* start(): "Execute entry actions for initial state(s)", path by path
EnterInitial(a, paths) ==
  IF paths = <<>> \/ a.raised THEN a
  ELSE LET x == RunNodeActions(a.machine, getStateNodesInPath(a.machine, Head(paths)),
                               [context |-> a.currentContext, log |-> <<>>,
                                spawned |-> a.spawnedActors],
                               Event("$init"), "entry")
       IN  EnterInitial([a EXCEPT !.currentContext = x.context,
                                  !.spawnedActors = x.spawned,
                                  !.raised = Threw(x.log),
                                  !.log = @ \o [i \in DOMAIN x.log |->
                                     [phase |-> x.log[i].phase, path |-> x.log[i].path,
                                      action |-> x.log[i].action, micro |-> 0]]],
                        Tail(paths))

\* "if (!delayedTransitions.has(pathStr)) startDelays(...)"
DelayInitial(a, path) ==
  IF ~HasKey(a.delayedTransitions, path) THEN startDelays(a, path) ELSE a

RECURSIVE InvokeInitial(_, _)
\* start(): "Start invoked actors for initial state(s)", node by node
InvokeInitial(a, nodePaths) ==
  IF nodePaths = <<>> \/ a.raised THEN a
  ELSE InvokeInitial(
         DelayInitial(
           IF ~HasKey(a.invokedActors, Head(nodePaths))
                /\ getStateNodeByPath(a.machine, Head(nodePaths)).invoke # <<>>
           THEN startInvocations(a, Head(nodePaths), Event("$init")) ELSE a,
           Head(nodePaths)),
         Tail(nodePaths))

start(a) ==
  IF a.started THEN a
  ELSE LET paths == stateValueToPaths(a.currentState)
           entered == EnterInitial([a EXCEPT !.started = TRUE], paths)
           invoked == InvokeInitial(entered,
                        Concat([i \in DOMAIN paths |->
                                  getStateNodesInPath(a.machine, paths[i])]))
       IN  notify(processAlways(invoked, Event("$init"), 0))

RECURSIVE ExitCurrent(_, _)
\* stop(): "Execute exit actions for all current states", path by path
ExitCurrent(a, paths) ==
  IF paths = <<>> \/ a.raised THEN a
  ELSE LET nodes == getStateNodesInPath(a.machine, Head(paths))
           x == RunNodeActions(a.machine,
                               [i \in DOMAIN nodes |-> nodes[Len(nodes) + 1 - i]],
                               [context |-> a.currentContext, log |-> <<>>,
                                spawned |-> a.spawnedActors],
                               Event("$stop"), "exit")
       IN  ExitCurrent([a EXCEPT !.currentContext = x.context,
                                 !.spawnedActors = x.spawned,
                                 !.raised = Threw(x.log),
                                 !.log = @ \o [i \in DOMAIN x.log |->
                                    [phase |-> x.log[i].phase, path |-> x.log[i].path,
                                     action |-> x.log[i].action, micro |-> 0]]],
                       Tail(paths))

stop(a) ==
  IF ~a.started THEN a
  ELSE LET handles == UNION { Range(a.invokedActors[i].v) : i \in DOMAIN a.invokedActors }
           cleared ==
             [a EXCEPT !.spawnedActors = <<>>,
                       !.children = StopChildren(@, handles),
                       !.halted = @ \o [i \in DOMAIN a.invokedActors |-> a.invokedActors[i].k],
                       !.invokedActors = <<>>,
                       !.timers = SelectSeq(@, LAMBDA tm :
                          \A i \in DOMAIN a.delayedTransitions :
                             tm.id \notin Range(a.delayedTransitions[i].v)),
                       !.cleared = @ \o [i \in DOMAIN a.delayedTransitions |->
                                           a.delayedTransitions[i].k],
                       !.delayedTransitions = <<>>]
           exited == ExitCurrent(cleared, stateValueToPaths(a.currentState))
       IN  IF exited.raised THEN exited
           ELSE [exited EXCEPT !.started = FALSE, !.observers = {}]

\* a handle that is gone can no longer be stopped or cleared: drop it from
\* the lists that still hold it (the lists themselves stay)
Forget(table, handle) ==
  [i \in DOMAIN table |->
     Entry(table[i].k, SelectSeq(table[i].v, LAMBDA h : h # handle))]

\* the host runs the callback of an expired timer
fireTimer(a, i) ==
  LET tm == a.timers[i]
  IN  processEvent([a EXCEPT !.timers = SelectSeq(@, LAMBDA other : other.id # tm.id),
                             !.delayedTransitions = Forget(@, tm.id)],
                   DelayEvent(tm.key))

\* the promise of an adapter settles: the .then / .catch handlers
settle(a, h, outcome) ==
  LET child == a.children[h]
      gone == [a EXCEPT !.children = [k \in DOMAIN @ \ {h} |-> @[k]],
                        !.invokedActors = Forget(@, h)]
  IN  IF ~child.stopped /\ (IF outcome = "done" THEN child.hasOnDone
                            ELSE child.hasOnError)
      THEN processEvent(gone, Event(IF outcome = "done" THEN DoneEvent(child.id)
                                    ELSE ErrorEvent(child.id)))
      ELSE gone

\* the logic of a callback adapter calls sendBack, some time after it began
sendBack(a, h) ==
  LET child == a.children[h]
      rest == Tail(child.emits)
      popped ==
        IF child.stopped /\ rest = <<>>
        THEN [a EXCEPT !.children = [k \in DOMAIN @ \ {h} |-> @[k]],
                       !.invokedActors = Forget(@, h)]
        ELSE [a EXCEPT !.children[h].emits = rest]
  IN  IF child.stopped THEN popped
      ELSE processEvent(popped, Event(Head(child.emits)))

(***************************************************************************)
(* The machines under study, taken from the repository's tests.            *)
(***************************************************************************)
Node(overrides) == overrides @@ StateNodeConfig

\* tests/parallel: regions that all accept TRIGGER, under a root-level `on`
RegionIdle(n) ==
  Node([on |-> <<On("TRIGGER", <<Tr(<<"done">>, <<"inc">>, "")>>)>>,
        exit |-> <<"exitIdle" \o n>>])

ParallelMachine ==
  createMachine(
    [initial |-> "active",
     on |-> <<On("HALT", <<Tr(<<"off">>, <<"halting">>, "")>>),
              On("REBOOT", <<Tr(<<"active">>, <<>>, "")>>)>>,
     nodes |->
       (<<"active">> :> Node([type |-> "parallel", states |-> <<"r1", "r2">>,
                              entry |-> <<"enterActive">>, exit |-> <<"exitActive">>]))
       @@ (<<"active", "r1">> :> Node([initial |-> "idle", states |-> <<"idle", "done">>,
                                       exit |-> <<"exitR1">>]))
       @@ (<<"active", "r1", "idle">> :> RegionIdle("1"))
       @@ (<<"active", "r1", "done">> :> Node([entry |-> <<"enterDone1">>]))
       @@ (<<"active", "r2">> :> Node([initial |-> "idle", states |-> <<"idle", "done">>,
                                       exit |-> <<"exitR2">>]))
       @@ (<<"active", "r2", "idle">> :> RegionIdle("2"))
       @@ (<<"active", "r2", "done">> :> Node([entry |-> <<"enterDone2">>]))
       @@ (<<"off">> :> Node([on |-> <<On("WAKE", <<Tr(<<"active">>, <<>>, "")>>)>>]))])

\* tests/hierarchical: a compound parent with a targetless RESET, a nested
\* compound child and a shallow history state
HierarchyMachine ==
  createMachine(
    [initial |-> "parent",
     on |-> <<>>,
     nodes |->
       (<<"parent">> :>
          Node([initial |-> "child1", states |-> <<"child1", "child2", "hist">>,
                entry |-> <<"enterParent">>, exit |-> <<"exitParent">>,
                on |-> <<On("RESET", <<Tr(<<>>, <<"reset">>, "")>>),
                         On("EXIT", <<Tr(<<"other">>, <<"leaving">>, "")>>)>>]))
       @@ (<<"parent", "child1">> :>
             Node([entry |-> <<"enterChild1">>, exit |-> <<"exitChild1">>,
                   on |-> <<On("NEXT", <<Tr(<<"child2">>, <<"inc", "moved">>, "")>>)>>]))
       @@ (<<"parent", "child2">> :>
             Node([initial |-> "g1", states |-> <<"g1", "g2">>,
                   entry |-> <<"enterChild2">>, exit |-> <<"exitChild2">>]))
       @@ (<<"parent", "child2", "g1">> :>
             Node([on |-> <<On("DEEPER", <<Tr(<<"g2">>, <<>>, "")>>)>>]))
       @@ (<<"parent", "child2", "g2">> :> Node([exit |-> <<"exitG2">>]))
       @@ (<<"parent", "hist">> :> Node([type |-> "history", history |-> "shallow"]))
       @@ (<<"other">> :>
             Node([on |-> <<On("RETURN", <<Tr(<<"parent", "hist">>, <<>>, "")>>),
                            On("BACK", <<Tr(<<"parent">>, <<>>, "")>>)>>]))])

\* tests/core/delayed: a state with an `after` delay and a self-transition
TimerDelay == 2

TimerMachine ==
  createMachine(
    [initial |-> "idle",
     on |-> <<>>,
     nodes |->
       (<<"idle">> :> Node([on |-> <<On("START", <<Tr(<<"timing">>, <<>>, "")>>)>>]))
       @@ (<<"timing">> :>
             Node([entry |-> <<"enterTiming">>, exit |-> <<"exitTiming">>,
                   after |-> <<After(TimerDelay, <<Tr(<<"done">>, <<"inc">>, "")>>)>>,
                   on |-> <<On("RESET", <<Tr(<<"timing">>, <<>>, "")>>),
                            On("CANCEL", <<Tr(<<"idle">>, <<>>, "")>>)>>]))
       @@ (<<"done">> :>
             Node([entry |-> <<"enterDone">>,
                   always |-> <<Tr(<<"idle">>, <<"reset">>, "atMax")>>,
                   on |-> <<On("AGAIN", <<Tr(<<"idle">>, <<>>, "")>>)>>]))])

\* tests/core/invoke: a state that invokes a promise, with a self-transition,
\* a timeout, a way out and an eventless exit once the counter is full, and
\* a state that invokes a callback
LoadTimeout == 3

InvokeMachine ==
  createMachine(
    [initial |-> "idle",
     on |-> <<>>,
     nodes |->
       (<<"idle">> :> Node([on |-> <<On("START", <<Tr(<<"loading">>, <<>>, "")>>),
                                     On("LISTEN", <<Tr(<<"listening">>, <<>>, "")>>)>>]))
       @@ (<<"loading">> :>
             Node([invoke |-> <<Invoke("fetch", "promise",
                                       <<Tr(<<"success">>, <<"inc">>, "")>>,
                                       <<Tr(<<"failure">>, <<>>, "")>>, <<>>, <<>>)>>,
                   after |-> <<After(LoadTimeout, <<Tr(<<"failure">>, <<>>, "")>>)>>,
                   always |-> <<Tr(<<"failure">>, <<"tripped">>, "atMax")>>,
                   on |-> <<On("RESTART", <<Tr(<<"loading">>, <<>>, "")>>),
                            On("CANCEL", <<Tr(<<"cancelled">>, <<>>, "")>>)>>]))
       @@ (<<"listening">> :>
             Node([invoke |-> <<Invoke("ticker", "callback", <<>>, <<>>, <<>>,
                                       <<"PING">>)>>,
                   on |-> <<On("PING", <<Tr(<<"success">>, <<"inc">>, "")>>),
                            On("CANCEL", <<Tr(<<"cancelled">>, <<>>, "")>>)>>]))
       @@ (<<"success">> :> Node([on |-> <<On("AGAIN", <<Tr(<<"idle">>, <<>>, "")>>)>>]))
       @@ (<<"failure">> :>
             Node([on |-> <<On("AGAIN", <<Tr(<<"idle">>, <<"reset">>, "")>>)>>]))
       @@ (<<"cancelled">> :> Node([on |-> <<On("AGAIN", <<Tr(<<"idle">>, <<>>, "")>>)>>]))])

\* tests/history: a parallel state whose regions each have a history node,
\* left by STOP and resumed through one region's history or as a whole; the
\* second region and its initial state log their entry
HistoryMachine ==
  createMachine(
    [initial |-> "active",
     on |-> <<>>,
     nodes |->
       (<<"active">> :>
          Node([type |-> "parallel", states |-> <<"region1", "region2">>,
                on |-> <<On("STOP", <<Tr(<<"idle">>, <<>>, "")>>)>>]))
       @@ (<<"active", "region1">> :>
             Node([initial |-> "r1a", states |-> <<"r1a", "r1b", "r1c", "r1hist">>]))
       @@ (<<"active", "region1", "r1a">> :>
             Node([on |-> <<On("R1_NEXT", <<Tr(<<"r1b">>, <<>>, "")>>)>>]))
       @@ (<<"active", "region1", "r1b">> :>
             Node([on |-> <<On("R1_NEXT", <<Tr(<<"r1c">>, <<>>, "")>>)>>]))
       @@ (<<"active", "region1", "r1c">> :> Node(<<>>))
       @@ (<<"active", "region1", "r1hist">> :> Node([type |-> "history"]))
       @@ (<<"active", "region2">> :>
             Node([initial |-> "r2a", states |-> <<"r2a", "r2b", "r2hist">>,
                   entry |-> <<"enterRegion2">>]))
       @@ (<<"active", "region2", "r2a">> :>
             Node([entry |-> <<"enterR2a">>,
                   on |-> <<On("R2_NEXT", <<Tr(<<"r2b">>, <<>>, "")>>)>>]))
       @@ (<<"active", "region2", "r2b">> :> Node(<<>>))
       @@ (<<"active", "region2", "r2hist">> :> Node([type |-> "history"]))
       @@ (<<"idle">> :>
             Node([on |-> <<On("RESUME_R1",
                               <<Tr(<<"active", "region1", "r1hist">>, <<>>, "")>>),
                            On("RESUME_R2",
                               <<Tr(<<"active", "region2", "r2hist">>, <<>>, "")>>),
                            On("RESUME_ALL", <<Tr(<<"active">>, <<>>, "")>>)>>]))])

\* tests/always: two states whose eventless transitions form a cycle
LoopMachine ==
  createMachine(
    [initial |-> "a",
     on |-> <<>>,
     nodes |->
       (<<"a">> :> Node([entry |-> <<"enterA">>, always |-> <<Tr(<<"b">>, <<>>, "")>>]))
       @@ (<<"b">> :> Node([entry |-> <<"enterB">>,
                            always |-> <<Tr(<<"a">>, <<>>, "")>>]))])

\* tests/machine: guarded transitions on a state and at the root, and
\* actions that throw, in an event's transition and in the eventless closure
GuardMachine ==
  createMachine(
    [initial |-> "idle",
     on |-> <<On("PANIC", <<Tr(<<"halted">>, <<>>, "atMax")>>)>>,
     nodes |->
       (<<"idle">> :>
          Node([on |-> <<On("INC", <<Tr(<<>>, <<"inc">>, "belowMax")>>),
                         On("GO", <<Tr(<<"active">>, <<>>, "atMax")>>),
                         On("FAIL", <<Tr(<<"active">>, <<"inc", "boom">>, "")>>),
                         On("ARM", <<Tr(<<"armed">>, <<"inc">>, "")>>)>>]))
       @@ (<<"active">> :>
             Node([on |-> <<On("STOP", <<Tr(<<"idle">>, <<"reset">>, "")>>)>>]))
       @@ (<<"armed">> :>
             Node([entry |-> <<"enterArmed">>,
                   always |-> <<Tr(<<"idle">>, <<"boom">>, "")>>]))
       @@ (<<"halted">> :> Node(<<>>))])

\* tests/conformance "Deep hierarchical navigation": three nested levels with
\* targets beside the source, and from the innermost state a target beside an
\* ancestor (JUMP), a target that names no state (LOST) and a way back (DOWN)
ScopeMachine ==
  createMachine(
    [initial |-> "level1",
     on |-> <<>>,
     nodes |->
       (<<"level1">> :>
          Node([initial |-> "level2", states |-> <<"level2", "level2b">>,
                on |-> <<On("TOP", <<Tr(<<"level1b">>, <<>>, "")>>)>>]))
       @@ (<<"level1", "level2">> :>
             Node([initial |-> "level3", states |-> <<"level3", "level3b">>,
                   on |-> <<On("UP2", <<Tr(<<"level2b">>, <<>>, "")>>)>>]))
       @@ (<<"level1", "level2", "level3">> :>
             Node([on |-> <<On("UP", <<Tr(<<"level3b">>, <<>>, "")>>),
                            On("JUMP", <<Tr(<<"level2b">>, <<>>, "")>>),
                            On("LOST", <<Tr(<<"nowhere">>, <<>>, "")>>)>>]))
       @@ (<<"level1", "level2", "level3b">> :> Node([entry |-> <<"enter3b">>]))
       @@ (<<"level1", "level2b">> :> Node([entry |-> <<"enter2b">>]))
       @@ (<<"level1b">> :>
             Node([on |-> <<On("DOWN", <<Tr(<<"level1">>, <<>>, "")>>)>>]))])

\* tests/setup "machine.provide - overrides implementations": a named action
\* on a targetless transition, built with implementations for the action, a
\* guard and a delay
GreeterMachine ==
  createMachineWith(
    [initial |-> "active",
     on |-> <<>>,
     nodes |->
       (<<"active">> :> Node([on |-> <<On("GREET", <<Tr(<<>>, <<"greet">>, "")>>)>>]))],
    [actions |-> ("greet" :> "hello"),
     guards |-> ("isPolite" :> "always"),
     delays |-> ("TIMEOUT" :> TimerDelay)])

\* the implementations given to provide
Overrides ==
  << [actions |-> ("greet" :> "hola"), guards |-> <<>>, delays |-> <<>>],
     [actions |-> <<>>, guards |-> ("isPolite" :> "never"), delays |-> <<>>],
     [actions |-> <<>>, guards |-> <<>>, delays |-> ("PAUSE" :> TimerDelay)] >>

\* tests/core/delayed "Zero delay acts like immediate/microtask transition":
\* a state whose entry schedules a delay of zero, and a way back to it
ZeroMachine ==
  createMachine(
    [initial |-> "start",
     on |-> <<>>,
     nodes |->
       (<<"start">> :>
          Node([entry |-> <<"enterStart">>,
                after |-> <<After(0, <<Tr(<<"immediate">>, <<"delay0">>, "")>>)>>]))
       @@ (<<"immediate">> :>
             Node([entry |-> <<"enterImmediate">>,
                   on |-> <<On("AGAIN", <<Tr(<<"start">>, <<>>, "")>>)>>]))])

\* the Spawn example of the documentation: an action that spawns a child
\* machine, here under the id worker and followed by a counting action, a
\* plain counting event, and a second state to leave to and come back from
SpawnMachine ==
  createMachine(
    [initial |-> "active",
     on |-> <<>>,
     nodes |->
       (<<"active">> :>
          Node([on |-> <<On("SPAWN", <<Tr(<<>>, <<"spawnWorker", "inc">>, "")>>),
                         On("INC", <<Tr(<<>>, <<"inc">>, "")>>),
                         On("REST", <<Tr(<<"resting">>, <<>>, "")>>)>>]))
       @@ (<<"resting">> :>
             Node([on |-> <<On("WAKE", <<Tr(<<"active">>, <<"reset">>, "")>>)>>]))])

\* tests/parallel "Child transition takes priority over parent": a parallel
\* state and a state inside a region that both handle an event, for the
\* first region (SHARED_EVENT) and for the second (SHARED_TOO)
PriorityMachine ==
  createMachine(
    [initial |-> "parallel",
     on |-> <<>>,
     nodes |->
       (<<"parallel">> :>
          Node([type |-> "parallel", states |-> <<"region1", "region2">>,
                on |-> <<On("SHARED_EVENT", <<Tr(<<"outside">>, <<"parent">>, "")>>),
                         On("SHARED_TOO", <<Tr(<<"outside">>, <<"parentToo">>, "")>>)>>]))
       @@ (<<"parallel", "region1">> :> Node([initial |-> "a", states |-> <<"a", "b">>]))
       @@ (<<"parallel", "region1", "a">> :>
             Node([on |-> <<On("SHARED_EVENT", <<Tr(<<"b">>, <<"child">>, "")>>)>>]))
       @@ (<<"parallel", "region1", "b">> :> Node(<<>>))
       @@ (<<"parallel", "region2">> :> Node([initial |-> "c", states |-> <<"c", "d">>]))
       @@ (<<"parallel", "region2", "c">> :>
             Node([on |-> <<On("SHARED_TOO", <<Tr(<<"d">>, <<"childToo">>, "")>>)>>]))
       @@ (<<"parallel", "region2", "d">> :> Node(<<>>))
       @@ (<<"outside">> :> Node(<<>>))])

\* tests/core/delayed "Independent timers in parallel regions": two regions
\* whose waiting states have a delayed transition, here under one delay key;
\* the first waits in a compound state with a step inside it, the second
\* enters its waiting state on GO
Waiting(action, initial, states) ==
  Node([initial |-> initial, states |-> states,
        after |-> <<After(TimerDelay, <<Tr(<<"done">>, <<action>>, "")>>)>>])

RegionTimerMachine ==
  createMachine(
    [initial |-> "parallel",
     on |-> <<>>,
     nodes |->
       (<<"parallel">> :> Node([type |-> "parallel", states |-> <<"fast", "slow">>]))
       @@ (<<"parallel", "fast">> :>
             Node([initial |-> "waiting", states |-> <<"waiting", "done">>]))
       @@ (<<"parallel", "fast", "waiting">> :> Waiting("fast", "w1", <<"w1", "w2">>))
       @@ (<<"parallel", "fast", "waiting", "w1">> :>
             Node([on |-> <<On("NUDGE", <<Tr(<<"w2">>, <<>>, "")>>)>>]))
       @@ (<<"parallel", "fast", "waiting", "w2">> :> Node(<<>>))
       @@ (<<"parallel", "fast", "done">> :> Node(<<>>))
       @@ (<<"parallel", "slow">> :>
             Node([initial |-> "idle", states |-> <<"idle", "waiting", "done">>]))
       @@ (<<"parallel", "slow", "idle">> :>
             Node([on |-> <<On("GO", <<Tr(<<"waiting">>, <<>>, "")>>)>>]))
       @@ (<<"parallel", "slow", "waiting">> :> Waiting("slow", "", <<>>))
       @@ (<<"parallel", "slow", "done">> :> Node(<<>>))])

\* "Bugfix: Parallel state actor independence": a callback invoked by a
\* state of one region, and a second region that moves on its own
IndependenceMachine ==
  createMachine(
    [initial |-> "active",
     on |-> <<>>,
     nodes |->
       (<<"active">> :> Node([type |-> "parallel", states |-> <<"regionA", "regionB">>]))
       @@ (<<"active", "regionA">> :> Node([initial |-> "a1", states |-> <<"a1", "a2">>]))
       @@ (<<"active", "regionA", "a1">> :>
             Node([invoke |-> <<Invoke("serviceA", "callback", <<>>, <<>>, <<>>, <<>>)>>,
                   on |-> <<On("NEXT_A", <<Tr(<<"a2">>, <<>>, "")>>)>>]))
       @@ (<<"active", "regionA", "a2">> :> Node(<<>>))
       @@ (<<"active", "regionB">> :> Node([initial |-> "b1", states |-> <<"b1", "b2">>]))
       @@ (<<"active", "regionB", "b1">> :>
             Node([on |-> <<On("NEXT_B", <<Tr(<<"b2">>, <<>>, "")>>)>>]))
       @@ (<<"active", "regionB", "b2">> :> Node(<<>>))])

\* an action that sends to its own actor while a transition is being taken:
\* GO leaves idle for busy and sends READY on the way; READY, handled in
\* idle, leads to a state with a delayed transition
ReentryMachine ==
  createMachine(
    [initial |-> "idle",
     on |-> <<>>,
     nodes |->
       (<<"idle">> :>
          Node([on |-> <<On("GO", <<Tr(<<"busy">>, <<"sendReady", "inc">>, "")>>),
                         On("READY", <<Tr(<<"noted">>, <<"inc">>, "")>>)>>]))
       @@ (<<"noted">> :>
             Node([after |-> <<After(TimerDelay, <<Tr(<<"idle">>, <<"reset">>, "")>>)>>]))
       @@ (<<"busy">> :>
             Node([on |-> <<On("BACK", <<Tr(<<"idle">>, <<"reset">>, "")>>)>>]))])

\* "Feature: Parent-Child communication via sendParent": the initial state
\* invokes a child that sends CHILD_GREETING to the parent while it is being
\* started, and the parent leaves the state on that event; here the state
\* also has a delayed transition, and there is a way back into it
GreetingMachine ==
  createMachine(
    [initial |-> "waiting",
     on |-> <<>>,
     nodes |->
       (<<"waiting">> :>
          Node([invoke |-> <<Invoke("child", "callback", <<>>, <<>>,
                                    <<"CHILD_GREETING">>, <<>>)>>,
                after |-> <<After(TimerDelay, <<Tr(<<"received">>, <<>>, "")>>)>>,
                on |-> <<On("CHILD_GREETING", <<Tr(<<"received">>, <<"inc">>, "")>>)>>]))
       @@ (<<"received">> :>
             Node([on |-> <<On("AGAIN", <<Tr(<<"waiting">>, <<"reset">>, "")>>)>>]))])

\* "Transient: No always transition if target not specified": a state whose
\* always transition has an action and no target
NoTargetMachine ==
  createMachine(
    [initial |-> "start",
     on |-> <<>>,
     nodes |->
       (<<"start">> :> Node([always |-> <<Tr(<<>>, <<"called">>, "")>>]))])

Machines ==
  <<ParallelMachine, HierarchyMachine, TimerMachine, InvokeMachine, HistoryMachine,
    LoopMachine, GuardMachine, ScopeMachine, GreeterMachine,
    provide(GreeterMachine, Overrides[1]), provide(GreeterMachine, Overrides[2]),
    provide(GreeterMachine, Overrides[3]), ZeroMachine, SpawnMachine, PriorityMachine,
    RegionTimerMachine, IndependenceMachine, ReentryMachine,
    GreetingMachine, NoTargetMachine>>

\* the event types a caller sends to each machine
Events ==
  << {"TRIGGER", "HALT", "REBOOT", "WAKE"},
     {"RESET", "EXIT", "NEXT", "DEEPER", "RETURN", "BACK"},
     {"START", "RESET", "CANCEL", "AGAIN"},
     {"START", "LISTEN", "RESTART", "CANCEL", "AGAIN"},
     {"R1_NEXT", "R2_NEXT", "STOP", "RESUME_R1", "RESUME_R2", "RESUME_ALL"},
     {"POKE"},
     {"INC", "GO", "FAIL", "ARM", "STOP", "PANIC"},
     {"UP", "UP2", "TOP", "JUMP", "LOST", "DOWN"},
     {"GREET"}, {"GREET"}, {"GREET"}, {"GREET"},
     {"AGAIN"},
     {"SPAWN", "INC", "REST", "WAKE"},
     {"SHARED_EVENT", "SHARED_TOO"},
     {"NUDGE", "GO"},
     {"NEXT_A", "NEXT_B"},
     {"GO", "READY", "BACK"},
     {"AGAIN"},
     {"NOOP"} >>

(***************************************************************************)
(* The state machine: one actor over one of the machines, its callers and  *)
(* its host (the timer queue and the settling of promises).                *)
(***************************************************************************)
MaxChildren == 2
MaxTimers == 2
MaxObservers == 2

Observers == 1..MaxObservers

VARIABLES
  m,                  \* which machine the actor interprets
  currentState,       \* the state value
  currentContext,     \* the context
  historyValue,       \* the history store
  started,            \* the started flag
  observers,          \* the subscribed observers
  invokedActors,      \* path -> handles of the adapters registered for it
  delayedTransitions, \* path -> ids of the timers registered for it
  timers,             \* the host's pending timers
  children,           \* the adapters that can still call back
  spawnedActors,      \* id -> the actor spawned under it
  log,                \* the actions run by the last handler
  steps,              \* the transitions taken by the last handler
  notified,           \* the snapshots delivered by the last handler
  micro,              \* the number of transitions taken by the last handler
  created, halted,    \* invocations started / stopped by the last handler
  scheduled, cleared, \* timers set / cancelled by the last handler
  raised,             \* the last handler ended by throwing to its caller
  last                \* the last operation

vars == <<m, currentState, currentContext, historyValue, started, observers,
          invokedActors, delayedTransitions, timers, children, spawnedActors, log,
          steps, notified, micro, created, halted, scheduled, cleared, raised, last>>

\* the closure of createActor as a record, with an empty trace
Actor ==
  [machine |-> Machines[m], currentState |-> currentState,
   currentContext |-> currentContext, historyValue |-> historyValue,
   started |-> started, observers |-> observers,
   invokedActors |-> invokedActors, delayedTransitions |-> delayedTransitions,
   timers |-> timers, children |-> children, spawnedActors |-> spawnedActors,
   log |-> <<>>, steps |-> <<>>, notified |-> <<>>, micro |-> 0,
   created |-> <<>>, halted |-> <<>>, scheduled |-> <<>>, cleared |-> <<>>,
   raised |-> FALSE]

Op(op, type, h, orphaned) == [op |-> op, type |-> type, h |-> h, orphaned |-> orphaned]

WithinBounds(a) ==
  /\ Cardinality(DOMAIN a.children) <= MaxChildren
  /\ Len(a.timers) <= MaxTimers

Install(a, op) ==
  /\ WithinBounds(a)
  /\ m' = m
  /\ currentState' = a.currentState
  /\ currentContext' = a.currentContext
  /\ historyValue' = a.historyValue
  /\ started' = a.started
  /\ observers' = a.observers
  /\ invokedActors' = a.invokedActors
  /\ delayedTransitions' = a.delayedTransitions
  /\ timers' = a.timers
  /\ children' = a.children
  /\ spawnedActors' = a.spawnedActors
  /\ log' = a.log
  /\ steps' = a.steps
  /\ notified' = a.notified
  /\ micro' = a.micro
  /\ created' = a.created
  /\ halted' = a.halted
  /\ scheduled' = a.scheduled
  /\ cleared' = a.cleared
  /\ raised' = a.raised
  /\ last' = op

\* createActor(machine)
Init ==
  /\ m \in { i \in DOMAIN Machines : Builds(Machines[i]) }
  /\ currentState = getInitialStateValue(Machines[m])
  /\ currentContext = [count |-> 0]
  /\ historyValue = NoHistory
  /\ started = FALSE
  /\ observers = {}
  /\ invokedActors = <<>>
  /\ delayedTransitions = <<>>
  /\ timers = <<>>
  /\ children = <<>>
  /\ spawnedActors = <<>>
  /\ log = <<>>
  /\ steps = <<>>
  /\ notified = <<>>
  /\ micro = 0
  /\ created = <<>>
  /\ halted = <<>>
  /\ scheduled = <<>>
  /\ cleared = <<>>
  /\ raised = FALSE
  /\ last = Op("create", "", 0, FALSE)

Start ==
  /\ ~started
  /\ Install(start(Actor), Op("start", "$init", 0, FALSE))

Send ==
  \E type \in Events[m] :
    Install(processEvent(Actor, Event(type)), Op("send", type, 0, FALSE))

Subscribe ==
  \E o \in Observers \ observers :
    Install([Actor EXCEPT !.observers = @ \cup {o}], Op("subscribe", "", o, FALSE))

Unsubscribe ==
  \E o \in observers :
    Install([Actor EXCEPT !.observers = @ \ {o}], Op("unsubscribe", "", o, FALSE))

Stop ==
  /\ started
  /\ Install(stop(Actor), Op("stop", "$stop", 0, FALSE))

\* time passes while no timer is due
Tick ==
  /\ timers # <<>>
  /\ \A i \in DOMAIN timers : timers[i].left > 0
  /\ Install([Actor EXCEPT !.timers = [i \in DOMAIN @ |-> [@[i] EXCEPT !.left = @ - 1]]],
             Op("tick", "", 0, FALSE))

\* the oldest due timer fires
FireTimer ==
  \E i \in DOMAIN timers :
    /\ timers[i].left = 0
    /\ \A j \in 1..(i - 1) : timers[j].left > 0
    /\ Install(fireTimer(Actor, i), Op("timer", "$delay", timers[i].id, FALSE))

SettlePromise ==
  \E h \in DOMAIN children, outcome \in {"done", "error"} :
    /\ children[h].kind = "promise"
    /\ Install(settle(Actor, h, outcome),
               Op(outcome, children[h].id, h, children[h].orphaned))

CallbackEmit ==
  \E h \in DOMAIN children :
    /\ children[h].kind = "callback"
    /\ children[h].emits # <<>>
    /\ Install(sendBack(Actor, h),
               Op("sendBack", Head(children[h].emits), h, children[h].orphaned))

Next ==
  \/ Start
  \/ Send
  \/ Subscribe
  \/ Unsubscribe
  \/ Stop
  \/ Tick
  \/ FireTimer
  \/ SettlePromise
  \/ CallbackEmit

Spec == Init /\ [][Next]_vars

TypeOK ==
  /\ m \in DOMAIN Machines
  /\ started \in BOOLEAN
  /\ observers \subseteq Observers
  /\ currentContext.count \in 0..MaxCount
  /\ Len(timers) <= MaxTimers
  /\ Cardinality(DOMAIN children) <= MaxChildren

(***************************************************************************)
(* Properties.  Each is stated on the state a handler leaves behind: the   *)
(* variables of the actor, and the trace of the handler that ran last.     *)
(***************************************************************************)
machine == Machines[m]

\* the operations that deliver an event to processEvent
EventOps == {"send", "timer", "done", "error", "sendBack"}

ActiveSet(value) == Range(ActivePaths(value))

ActiveChildren(value, p) ==
  { q \in ActiveSet(value) : Len(q) = Len(p) + 1 /\ IsPrefix(p, q) }

IsCompound(node) == HasStates(node) /\ node.type # "parallel"

\* every active path names a node, and every active compound node has
\* exactly one active child
CompoundsResolved(value) ==
  \A p \in ActiveSet(value) :
    /\ HasNode(machine, p)
    /\ IsCompound(getStateNodeByPath(machine, p))
         => Cardinality(ActiveChildren(value, p)) = 1

\* every region of every active parallel node is active
RegionsComplete(value) ==
  \A p \in ActiveSet(value) :
    (HasNode(machine, p) /\ getStateNodeByPath(machine, p).type = "parallel")
      => \A i \in DOMAIN getStateNodeByPath(machine, p).states :
           Append(p, getStateNodeByPath(machine, p).states[i]) \in ActiveSet(value)

\* the nodes that had a transition for an event in a state value
EnabledSources(value, event, context) ==
  { r.fromPath :
      r \in { f \in { findTransitionInPath(machine, p, event, context) :
                        p \in Range(stateValueToPaths(value)) } : f.found } }

\* nodes in different regions: neither is an ancestor of the other
Orthogonal(sources) ==
  \A s1, s2 \in sources : s1 # s2 => ~IsPrefix(s1, s2) /\ ~IsPrefix(s2, s1)

\* the step re-entered the node it was taken from
ReEnters(step) ==
  /\ step.hasTarget
  /\ ~step.global
  /\ step.fromPath \in Range(step.exited)
  /\ step.fromPath \in Range(step.entered)

PhaseRank(phase) == IF phase = "exit" THEN 1 ELSE IF phase = "transition" THEN 2 ELSE 3

\* C1: when a send finds two or more regions of a parallel state each with
\* an enabled transition for the event, every one of these regions takes its
\* transition in that macro-step, exactly once.
C1_EveryRegionTransitions ==
  (last.op = "send" /\ steps # <<>>)
    => LET sources == EnabledSources(steps[1].before, steps[1].event, steps[1].context)
       IN  (Cardinality(sources) >= 2 /\ Orthogonal(sources))
             => \A src \in sources :
                  Cardinality({ k \in DOMAIN steps :
                                  /\ steps[k].fromPath = src
                                  /\ steps[k].event.type = last.type }) = 1

\* C2: after start, and after every macro-step in which a started actor took
\* a transition, every subscribed observer has been handed a snapshot.
C2_ObserversNotifiedAfterMacroStep ==
  (last.op = "start" \/ (last.op \in EventOps /\ started /\ steps # <<>>))
    => \A o \in observers :
         notified # <<>> /\ o \in notified[Len(notified)].to

\* C3: every snapshot handed to an observer is the one published at the end
\* of the macro-step: the final state value and context, with the timers and
\* the invocations reconciled and the eventless closure finished.
C3_SnapshotsAreFinal ==
  \A i \in DOMAIN notified :
    notified[i] = Snapshot([Actor EXCEPT !.micro = micro])

\* C4: after creation, after start and after every step, every active path
\* names a node of the tree and every active compound node has exactly one
\* active child.
C4_CompoundHasOneActiveChild ==
  /\ CompoundsResolved(currentState)
  /\ \A k \in DOMAIN steps : CompoundsResolved(steps[k].after)

\* C5: after creation, after start and after every macro-step, every region
\* of every active parallel node is active.
C5_ParallelHasAllRegions == RegionsComplete(currentState)

\* C6: a transition without a target exits and enters nothing and leaves the
\* state value as it was.
C6_TargetlessLeavesStateAlone ==
  \A k \in DOMAIN steps :
    (~steps[k].hasTarget /\ ~steps[k].global)
      => /\ steps[k].exited = <<>>
         /\ steps[k].entered = <<>>
         /\ steps[k].after = steps[k].before
         /\ \A i \in DOMAIN log :
              log[i].micro = k => log[i].phase = "transition"

\* C7: after a send that re-entered a state with an `after` delay, the timer
\* of that state runs from the re-entry: it has the full delay left.
C7_ReentryRestartsTimer ==
  (last.op = "send" /\ Len(steps) = 1 /\ ReEnters(steps[1])
     /\ getStateNodeByPath(machine, steps[1].fromPath).after # <<>>)
    => /\ HasKey(delayedTransitions, steps[1].fromPath)
       /\ \A i \in DOMAIN timers :
            timers[i].id \in Range(GetKey(delayedTransitions, steps[1].fromPath))
              => timers[i].left = resolveDelay(timers[i].key)

\* C8: after a send that re-entered a state with an invocation, the running
\* invocation has been stopped and a new one started: the adapters registered
\* for the state were all created after the exit.
C8_ReentryRestartsInvocation ==
  (last.op = "send" /\ Len(steps) = 1 /\ ReEnters(steps[1])
     /\ getStateNodeByPath(machine, steps[1].fromPath).invoke # <<>>)
    => /\ steps[1].fromPath \in Range(halted)
       /\ steps[1].fromPath \in Range(created)
       /\ HasKey(invokedActors, steps[1].fromPath)
       /\ \A h \in Range(GetKey(invokedActors, steps[1].fromPath)) :
            h \in DOMAIN children => ~children[h].orphaned

\* C9: the completion, failure or sendBack of an invocation whose declaring
\* state has been exited since it began takes no transition and runs no action.
C9_ExitedInvocationIsInert ==
  (last.op \in {"done", "error", "sendBack"} /\ last.orphaned)
    => steps = <<>> /\ log = <<>>

\* C10: within one transition the exit actions run first, deepest node first,
\* then the transition's actions, then the entry actions, shallowest node first.
C10_ExitThenTransitionThenEntry ==
  \A i, j \in DOMAIN log :
    (i < j /\ log[i].micro = log[j].micro /\ log[i].micro > 0)
      => /\ PhaseRank(log[i].phase) <= PhaseRank(log[j].phase)
         /\ (log[i].phase = "exit" /\ log[j].phase = "exit")
              => Len(log[i].path) >= Len(log[j].path)
         /\ (log[i].phase = "entry" /\ log[j].phase = "entry")
              => Len(log[i].path) <= Len(log[j].path)

\* the descriptor a recorded step was taken by, and the path its target was
\* read as
StepChoice(step) ==
  IF step.global THEN FindGlobal(machine, step.event, step.context)
  ELSE FindInPaths(machine, stateValueToPaths(step.before), step.event, step.context)

StepTarget(step) ==
  IF step.global THEN StepChoice(step).transition.target
  ELSE FullTargetPath(machine, StepChoice(step).transition, step.fromPath)

\* the last step entered, from outside, the shallow history node of a
\* compound state that has a recorded history
RestoresShallow(step) ==
  /\ ~step.global
  /\ step.hasTarget
  /\ HasNode(machine, StepTarget(step))
  /\ getStateNodeByPath(machine, StepTarget(step)).type = "history"
  /\ getStateNodeByPath(machine, StepTarget(step)).history # "deep"
  /\ HasHistory(historyValue, Take(StepTarget(step), Len(StepTarget(step)) - 1))
  /\ ~IsPrefix(Take(StepTarget(step), Len(StepTarget(step)) - 1), step.fromPath)
  /\ IsStr(getHistoryValue(
             historyValue[Take(StepTarget(step), Len(StepTarget(step)) - 1)],
             "shallow"))

\* the state value of entering the recorded child of a history node's parent
\* directly, with no history
RecordedChildEntered(target) ==
  resolveTarget(machine,
    Append(Take(target, Len(target) - 1),
           getHistoryValue(historyValue[Take(target, Len(target) - 1)], "shallow").s),
    NoHistory)

\* C11: entering a shallow history node restores the immediate child that was
\* active when the parent was last exited and resolves that child's
\* descendants from `initial`: the configuration is the one reached by
\* entering that child directly.
C11_ShallowHistoryReresolvesChild ==
  (steps # <<>> /\ RestoresShallow(steps[Len(steps)]))
    => Range(stateValueToPaths(steps[Len(steps)].after))
         = Range(stateValueToPaths(RecordedChildEntered(StepTarget(steps[Len(steps)]))))

\* the value a state value gives the node at a path (NoValue when the node
\* is not active)
ValueAt(value, path) == getValueAtPath(value, path)

\* the last step entered, from outside, the history node of a region of a
\* parallel state, and the region has a recorded history
RestoresRegion(step) ==
  /\ ~step.global
  /\ step.hasTarget
  /\ Len(StepTarget(step)) >= 3
  /\ HasNode(machine, StepTarget(step))
  /\ getStateNodeByPath(machine, StepTarget(step)).type = "history"
  /\ getStateNodeByPath(machine, Take(StepTarget(step), Len(StepTarget(step)) - 2)).type
       = "parallel"
  /\ HasHistory(historyValue, Take(StepTarget(step), Len(StepTarget(step)) - 1))
  /\ ~IsPrefix(Take(StepTarget(step), Len(StepTarget(step)) - 2), step.fromPath)

\* region: the path of the region restored; the other regions of its parallel
\* parent are at the value that entering them with no history gives
OtherRegionsInitial(value, region) ==
  LET parallel == Take(region, Len(region) - 1)
      names == getStateNodeByPath(machine, parallel).states
  IN  \A i \in DOMAIN names :
        Append(parallel, names[i]) # region
          => ValueAt(value, Append(parallel, names[i]))
               = ValueAt(resolveTarget(machine, Append(parallel, names[i]), NoHistory),
                         Append(parallel, names[i]))

RegionRestored(value, target) ==
  ValueAt(value, Take(target, Len(target) - 1))
    = getHistoryValue(historyValue[Take(target, Len(target) - 1)],
        IF getStateNodeByPath(machine, target).history = "deep" THEN "deep"
        ELSE "shallow")

\* C12: entering a parallel state through the history node of one region
\* restores that region's recorded configuration and enters every other
\* region at its initial state, not at its recorded history.
C12_OtherRegionsEnterInitial ==
  (steps # <<>> /\ RestoresRegion(steps[Len(steps)]))
    => /\ RegionRestored(steps[Len(steps)].after, StepTarget(steps[Len(steps)]))
       /\ OtherRegionsInitial(steps[Len(steps)].after,
            Take(StepTarget(steps[Len(steps)]), Len(StepTarget(steps[Len(steps)])) - 1))

\* a region was restored to a state other than its initial one while another
\* region, recorded elsewhere than at its initial state, was entered afresh
C12_Witness ==
  /\ m = 5
  /\ last.op = "send" /\ last.type = "RESUME_R1"
  /\ steps # <<>> /\ RestoresRegion(steps[Len(steps)])
  /\ ValueAt(currentState, <<"active", "region1">>) = Leaf("r1c")
  /\ historyValue[<<"active", "region2">>] = Leaf("r2b")
  /\ ValueAt(currentState, <<"active", "region2">>) = Leaf("r2a")

\* the steps of the last handler taken for the eventless closure
AlwaysSteps == { k \in DOMAIN steps : steps[k].event.type = "$$always" }

\* C13: every macro-step terminates: the eventless closure of a handler takes
\* at most AlwaysCap transitions, cycle or not, and the handler returns (one
\* transition for the event itself, then the capped closure).
C13_ClosureIsCapped ==
  /\ Cardinality(AlwaysSteps) <= AlwaysCap
  /\ micro <= AlwaysCap + 1
  /\ Len(steps) = micro

\* the closure ran into the cap on a cycle during start, and the actor then
\* accepted an event whose closure ran into the cap again
C13_Witness ==
  /\ m = 6
  /\ last.op = "send"
  /\ started
  /\ Cardinality(AlwaysSteps) = AlwaysCap
  /\ micro = AlwaysCap + 1
  /\ currentState = Leaf("b")

\* some active node, or the root-level `on` map, has a descriptor for the
\* event type whose guard passes
HasDescriptorFor(value, context, type) ==
  \/ \E p \in ActiveSet(value) :
       /\ HasNode(machine, p)
       /\ findValidTransition(OnFor(getStateNodeByPath(machine, p), Event(type)),
                              context, Event(type)) > 0
  \/ findValidTransition(OnFor(machine, Event(type)), context, Event(type)) > 0

\* C14: a send of an event for which no active node and no root-level `on`
\* entry has a descriptor whose guard passes leaves the state value, the
\* context, the history store, the timers and the invocations as they were
\* and runs no action.
C14_UnmatchedEventIsDropped ==
  [][ (last'.op = "send"
         /\ ~HasDescriptorFor(currentState, currentContext, last'.type))
        => /\ currentState' = currentState
           /\ currentContext' = currentContext
           /\ historyValue' = historyValue
           /\ timers' = timers
           /\ delayedTransitions' = delayedTransitions
           /\ invokedActors' = invokedActors
           /\ children' = children
           /\ log' = <<>> ]_vars

\* C15: when an action throws during a send, the exception reaches the caller
\* and the actor's state value and context are those it had before the send.
C15_ThrowingStepIsAborted ==
  [][ (last'.op = "send" /\ raised')
        => /\ currentState' = currentState
           /\ currentContext' = currentContext ]_vars

\* C16: can(event) is a dry run of the selection: it is true exactly when some
\* active node or the root `on` map has a descriptor for the event type whose
\* guard passes on the current context.
C16_CanIsDryRunOfSelection ==
  \A type \in Events[m] :
    canHandle(machine, currentState, Event(type))
      <=> HasDescriptorFor(currentState, currentContext, type)

\* the queries put to matches: every node of the machine by its name, by its
\* dotted path and as a nested record, and the state value itself
Queries ==
  { Text(<<p[Len(p)]>>) : p \in DOMAIN machine.nodes }
    \cup { Text(p) : p \in DOMAIN machine.nodes }
    \cup { pathToStateValue(p) : p \in { q \in DOMAIN machine.nodes : Len(q) > 1 } }
    \cup (IF IsObj(currentState) THEN {currentState} ELSE {})

QueryPaths(query) ==
  IF query.t = "text" THEN {query.segments} ELSE Range(stateValueToPaths(query))

\* C17: matches(query) succeeds if and only if every path of the query is a
\* prefix, from the machine root, of some active path, for a single name, a
\* dotted string and a nested record alike.
C17_MatchesIffPrefixOfActivePath ==
  \A query \in Queries :
    matchesStateValue(currentState, query)
      <=> \A testPath \in QueryPaths(query) :
            \E active \in Range(stateValueToPaths(currentState)) :
              IsPrefix(testPath, active)

\* the scopes a target is searched in, nearest first: the parent of the
\* source, then the parent of each successive ancestor, the root last
RECURSIVE NearestScope(_, _, _)
NearestScope(target, fromPath, k) ==
  IF k < 0 THEN <<>>
  ELSE IF HasNode(machine, Append(Take(fromPath, k), target[1])) THEN Take(fromPath, k)
  ELSE NearestScope(target, fromPath, k - 1)

\* the path a target denotes when it is searched upward from the source
UpwardTarget(target, fromPath) ==
  NearestScope(target, fromPath, Len(fromPath) - 1) \o target

\* C18: the target of a taken transition is the path found by searching
\* upward from the source: beside the source if a sibling has the name of its
\* first segment, else beside the nearest ancestor that has such a sibling,
\* and read from the machine root only when no scope has one.
C18_TargetResolvedBySearchingUpward ==
  (steps # <<>> /\ ~steps[Len(steps)].global /\ steps[Len(steps)].hasTarget)
    => StepTarget(steps[Len(steps)])
         = UpwardTarget(StepChoice(steps[Len(steps)]).transition.target,
                        steps[Len(steps)].fromPath)

\* a name keeps its implementation from one table to another
Keeps(name, from, to) == name \in DOMAIN to /\ to[name] = from[name]

\* the implementations are those of the original overlaid with the overrides
Overlaid(implementations, original, overrides) ==
  /\ \A name \in DOMAIN original.actions \ DOMAIN overrides.actions :
       Keeps(name, original.actions, implementations.actions)
  /\ \A name \in DOMAIN original.guards \ DOMAIN overrides.guards :
       Keeps(name, original.guards, implementations.guards)
  /\ \A name \in DOMAIN original.delays \ DOMAIN overrides.delays :
       Keeps(name, original.delays, implementations.delays)
  /\ \A name \in DOMAIN overrides.actions :
       Keeps(name, overrides.actions, implementations.actions)
  /\ \A name \in DOMAIN overrides.guards :
       Keeps(name, overrides.guards, implementations.guards)
  /\ \A name \in DOMAIN overrides.delays :
       Keeps(name, overrides.delays, implementations.delays)

\* C19: the machine returned by provide has the original machine's named
\* actions, guards and delays overlaid with the overrides: every
\* implementation that is not overridden, named delays included, is still
\* there.
C19_ProvideOverlaysImplementations ==
  \A k \in DOMAIN Overrides :
    machine = provide(GreeterMachine, Overrides[k])
      => Overlaid(machine.implementations, GreeterMachine.implementations, Overrides[k])

\* the state a step's transition referenced exists: its target names a node
\* in some scope around the source, or from the root
ReferencesState(step) ==
  IF step.global THEN HasNode(machine, StepChoice(step).transition.target)
  ELSE HasNode(machine, UpwardTarget(StepChoice(step).transition.target, step.fromPath))

\* C20: a machine that was built has no transition to a state that does not
\* exist: every transition an actor takes while it processes an event
\* references a state of the machine.
C20_NoMissingTargetAfterBuild ==
  \A i \in DOMAIN steps : steps[i].hasTarget => ReferencesState(steps[i])

\* C21: send on an actor that has not been started, or that has been
\* stopped, does nothing: the state value, the context and the history store
\* stay as they are, no action runs, and no timer or invocation is started.
C21_SendWhenNotRunningIsNoOp ==
  [][(last'.op = "send" /\ ~started)
       => /\ currentState' = currentState
          /\ currentContext' = currentContext
          /\ historyValue' = historyValue
          /\ log' = <<>>
          /\ timers' = timers
          /\ delayedTransitions' = delayedTransitions
          /\ children' = children
          /\ invokedActors' = invokedActors
          /\ ~started']_vars

\* a send has just returned on an actor that was started, moved away from
\* its initial state and was stopped
C21_Witness ==
  /\ last.op = "send"
  /\ ~started
  /\ currentState # getInitialStateValue(machine)

\* C22: once stop has returned no timer of the actor is pending and every
\* child actor has been stopped, and a timer or a child that calls in later
\* takes no transition and runs no action.
C22_NothingLeftAfterStop ==
  /\ ~started => /\ timers = <<>>
                 /\ spawnedActors = <<>>
                 /\ delayedTransitions = <<>>
                 /\ invokedActors = <<>>
                 /\ \A h \in DOMAIN children : children[h].stopped
  /\ (~started /\ last.op \in {"timer", "done", "error", "sendBack"})
       => steps = <<>> /\ log = <<>>

\* the actions of one phase in the trace of the last handler are those of the
\* nodes of a state value, each action of each node
RanForEach(value, phase) ==
  \A p \in ActiveSet(value) :
    HasNode(machine, p)
      => \A k \in DOMAIN (IF phase = "exit" THEN getStateNodeByPath(machine, p).exit
                          ELSE getStateNodeByPath(machine, p).entry) :
           \E i \in DOMAIN log :
             /\ log[i].phase = phase
             /\ log[i].path = p
             /\ log[i].action = (IF phase = "exit" THEN getStateNodeByPath(machine, p).exit
                                 ELSE getStateNodeByPath(machine, p).entry)[k]

\* no action of a node is in the trace twice
RanOnce == \A i, j \in DOMAIN log : (log[i].path = log[j].path /\ log[i].action = log[j].action) => i = j

\* C23: stop runs the exit actions of every active node, each node once and
\* every descendant before its ancestor, over the whole active configuration.
C23_StopExitsDeepestFirstOnce ==
  (last.op = "stop" /\ ~started)
    => /\ RanForEach(currentState, "exit")
       /\ RanOnce
       /\ \A i, j \in DOMAIN log :
            (i < j) => ~(IsPrefix(log[i].path, log[j].path) /\ log[i].path # log[j].path)

\* C24: start runs the entry actions of every node of the initial active
\* configuration, each node once and every ancestor before its descendants.
C24_StartEntersShallowestFirstOnce ==
  (last.op = "start" /\ micro = 0 /\ ~raised)
    => /\ RanForEach(currentState, "entry")
       /\ RanOnce
       /\ \A i, j \in DOMAIN log :
            (i < j) => ~(IsPrefix(log[j].path, log[i].path) /\ log[i].path # log[j].path)

\* C25: a delayed transition is taken only by the handler of its own timer,
\* as the first step of a macro-step of its own, and never inside the start or
\* the send that entered its state: when that handler returns the state is
\* still active, its entry actions have run and its timers are pending, also
\* when the delay is zero.
C25_ZeroDelayIsALaterMacroStep ==
  /\ \A i \in DOMAIN steps :
       steps[i].event.type = "$delay" => (last.op = "timer" /\ i = 1)
  /\ \A p \in Range(scheduled) :
       (last.op \in {"start", "send"} /\ p \in ActiveSet(currentState))
         => /\ HasKey(delayedTransitions, p)
            /\ \A id \in Range(GetKey(delayedTransitions, p)) :
                 \E i \in DOMAIN timers : timers[i].id = id
            /\ \A k \in DOMAIN getStateNodeByPath(machine, p).entry :
                 \E i \in DOMAIN log :
                   /\ log[i].phase = "entry"
                   /\ log[i].path = p
                   /\ log[i].action = getStateNodeByPath(machine, p).entry[k]

\* the timer of delay zero that the entry of its state scheduled has fired in
\* a macro-step of its own and its transition was taken
C25_Witness ==
  /\ machine = ZeroMachine
  /\ last.op = "timer"
  /\ Len(steps) = 1
  /\ steps[1].event = DelayEvent(0)
  /\ steps[1].before = Leaf("start")
  /\ currentState = Leaf("immediate")
  /\ \E i \in DOMAIN log : log[i].action = "delay0"

\* C26: a spawn under an id that the registry already has fails: the call
\* throws to the caller of send, no actor is created, the registry still maps
\* the id to the first actor, and the parent is not terminated: it stays
\* started and handles the events sent after the failure.
C26_DuplicateSpawnFails ==
  [][/\ (last'.op = "send" /\ last'.type = "SPAWN" /\ started
           /\ currentState = Leaf("active") /\ "worker" \in DOMAIN spawnedActors)
          => /\ raised'
             /\ spawnedActors' = spawnedActors
             /\ spawnedActors'["worker"] = 1
             /\ started'
             /\ currentState' = currentState
     /\ (raised /\ last.type = "SPAWN" /\ last'.op = "send" /\ last'.type = "INC"
           /\ currentContext.count < MaxCount)
          => /\ ~raised'
             /\ currentContext'.count = currentContext.count + 1
             /\ spawnedActors' = spawnedActors]_vars

\* a second spawn under the id worker has just failed
C26_Witness ==
  /\ machine = SpawnMachine
  /\ last.op = "send"
  /\ last.type = "SPAWN"
  /\ raised
  /\ started
  /\ "worker" \in DOMAIN spawnedActors
  /\ \E i \in DOMAIN log : log[i].action = "spawnWorker"

\* the active nodes that have an enabled transition for an event
EnabledNodes(value, event, context) ==
  { p \in ActiveSet(value) :
      /\ HasNode(machine, p)
      /\ FindAtNode(getStateNodeByPath(machine, p), p, event, context).found }

\* C27: when an active node and an active ancestor of it both have an enabled
\* transition for the event sent, the ancestor's transition is not the one
\* taken: the node a send takes its transition from has no active descendant
\* with an enabled transition for the event.
C27_DeepestEnabledNodeWins ==
  (last.op = "send" /\ steps # <<>> /\ ~steps[1].global)
    => \A p \in EnabledNodes(steps[1].before, steps[1].event, steps[1].context) :
         ~(IsPrefix(steps[1].fromPath, p) /\ p # steps[1].fromPath)

\* every pending timer is registered for a path in the active node set of
\* a running actor
TimersAreForActivePaths ==
  \A i \in DOMAIN timers :
    \E j \in DOMAIN delayedTransitions :
      /\ timers[i].id \in Range(delayedTransitions[j].v)
      /\ started
      /\ delayedTransitions[j].k \in ActiveSet(currentState)

\* the nodes with delayed transitions that the first step of a send exited
ExitedWithDelays ==
  IF last.op = "send" /\ steps # <<>>
  THEN { p \in Range(steps[1].exited) :
           getStateNodeByPath(machine, p).after # <<>> }
  ELSE {}

\* C28: whenever a handler has returned, every pending timer is registered
\* for a path that is in the active node set, and the timers of each node
\* that a send exited, by itself or with an ancestor, were cancelled in that
\* macro-step.
C28_TimersOnlyForActivePaths ==
  /\ TimersAreForActivePaths
  /\ \A p \in ExitedWithDelays : p \in Range(cleared)

\* every adapter that has not been stopped belongs to a node in the active
\* node set of a running actor
InvokedAreForActivePaths ==
  \A h \in DOMAIN children :
    ~children[h].stopped
      => started /\ children[h].path \in ActiveSet(currentState)

\* the nodes with invocations that the first step of a send exited
ExitedWithInvocations ==
  IF last.op = "send" /\ steps # <<>>
  THEN { p \in Range(steps[1].exited) :
           getStateNodeByPath(machine, p).invoke # <<>> }
  ELSE {}

\* C29: whenever a handler has returned, every running invoked child belongs
\* to a node that is in the active node set, and the invocations of each node
\* that a send exited were stopped, once, in that macro-step.
C29_InvokedOnlyForActiveNodes ==
  /\ InvokedAreForActivePaths
  /\ \A p \in ExitedWithInvocations :
       Cardinality({ i \in DOMAIN halted : halted[i] = p }) = 1

\* the path whose entry scheduled the timer with this handle
ScheduledBy(id) ==
  { delayedTransitions[j].k : j \in { i \in DOMAIN delayedTransitions :
                                        id \in Range(delayedTransitions[i].v) } }

\* C30: the transition that a firing timer takes is the delayed transition
\* of the node whose entry scheduled that timer, never the one of another
\* active node with the same delay key.
C30_TimerFiresItsOwnNode ==
  [][(last'.op = "timer" /\ steps' # <<>>)
       => steps'[1].fromPath \in ScheduledBy(last'.h)]_vars

\* the nodes that some step of the last handler removed from the active
\* node set, and those that some step added to it
Left == UNION { ActiveSet(steps[k].before) \ ActiveSet(steps[k].after) : k \in DOMAIN steps }
Joined == UNION { ActiveSet(steps[k].after) \ ActiveSet(steps[k].before) : k \in DOMAIN steps }

\* C31: a handler that takes transitions stops the invocations and cancels
\* the timers only of nodes that left the active node set, and starts them
\* only for nodes that joined it: a transition inside one region of a
\* parallel state leaves those of the other regions and of the common
\* ancestors alone.
C31_OnlyChangedNodesAreReconciled ==
  (last.op \in {"send", "timer", "done", "error", "sendBack"})
    => /\ Range(halted) \cup Range(cleared) \subseteq Left
       /\ Range(created) \cup Range(scheduled) \subseteq Joined

\* the second region has just moved while the callback of the first region
\* was running, and the callback is still running
C31_Witness ==
  /\ Machines[m] = IndependenceMachine
  /\ last.op = "send" /\ last.type = "NEXT_B" /\ steps # <<>>
  /\ HasKey(invokedActors, <<"active", "regionA", "a1">>)
  /\ \E h \in DOMAIN children : children[h].id = "serviceA" /\ ~children[h].stopped
  /\ halted = <<>> /\ created = <<>>

\* the least common ancestor of the source and the target of a step, and the
\* steps whose source and target both lie strictly below it
StepLca(step) ==
  Take(step.fromPath, CommonPrefixLength(step.fromPath, StepTarget(step)))

BetweenDescendants(step) ==
  /\ ~step.global
  /\ step.hasTarget
  /\ HasNode(machine, StepTarget(step))
  /\ Len(StepLca(step)) < Len(step.fromPath)
  /\ Len(StepLca(step)) < Len(StepTarget(step))

StrictlyBelow(lca, p) == IsPrefix(lca, p) /\ Len(p) > Len(lca)

\* C32: a step from a node to a target that share a common ancestor exits
\* and enters only nodes strictly below their least common ancestor, runs
\* exit and entry actions only of such nodes, and keeps every active path
\* that does not pass through that ancestor.
C32_OnlyBelowTheCommonAncestor ==
  \A k \in DOMAIN steps :
    BetweenDescendants(steps[k])
      => /\ \A p \in Range(steps[k].exited) \cup Range(steps[k].entered) :
              StrictlyBelow(StepLca(steps[k]), p)
         /\ \A i \in DOMAIN log :
              (log[i].micro = k /\ log[i].phase \in {"exit", "entry"})
                => StrictlyBelow(StepLca(steps[k]), log[i].path)
         /\ \A q \in Range(stateValueToPaths(steps[k].before)) :
              ~IsPrefix(StepLca(steps[k]), q)
                => q \in Range(stateValueToPaths(steps[k].after))

\* one region of a parallel state has just moved from idle to done: the
\* exit action of idle ran, the region itself was not exited, and the other
\* region is where it was
C32_Witness ==
  /\ Machines[m] = ParallelMachine
  /\ last.op = "send" /\ Len(steps) = 1
  /\ BetweenDescendants(steps[1])
  /\ steps[1].fromPath = <<"active", "r1", "idle">>
  /\ \E i \in DOMAIN log : log[i].action = "exitIdle1"
  /\ <<"active", "r2", "idle">> \in Range(stateValueToPaths(currentState))

\* the nodes whose entry in the history store is new or has another value
\* after a step of the system
Rerecorded ==
  { q \in DOMAIN historyValue' :
      q \notin DOMAIN historyValue \/ historyValue'[q] # historyValue[q] }

\* C33: the history store gains an entry for a node, or gets another value
\* for it, only in a macro-step that exits that node; a transition between
\* the children of a compound node that stays active records nothing for it.
C33_HistoryRecordedOnExitOnly ==
  [][\A q \in Rerecorded : \E k \in DOMAIN steps' : q \in Range(steps'[k].exited)]_vars

\* a state value decoded into its paths, each path encoded, and the
\* encodings merged
RoundTrip(value) ==
  mergeStateValues([i \in DOMAIN stateValueToPaths(value) |->
                      pathToStateValue(stateValueToPaths(value)[i])])

\* C34: the state value of the actor, and the state value after every step
\* of the last handler, is what decoding it into paths and merging the
\* encodings of the paths gives back.
C34_PathsRoundTrip ==
  /\ RoundTrip(currentState) = currentState
  /\ \A k \in DOMAIN steps : RoundTrip(steps[k].after) = steps[k].after

\* a send has just taken a step that left more than one region active
C34_Witness ==
  /\ last.op = "send" /\ steps # <<>>
  /\ Len(stateValueToPaths(currentState)) > 1
  /\ RoundTrip(currentState) = currentState

\* the step was selected from the `always` list of its source node
FromAlways(step) ==
  /\ ~step.global
  /\ HasNode(machine, step.fromPath)
  /\ findValidTransition(getStateNodeByPath(machine, step.fromPath).always,
                         step.context, step.event) > 0

\* C35: the step that a handler selects for the event delivered to it (an
\* external event, a $delay event or the event of an invocation) is never
\* an `always` transition; those are taken in the eventless closure only.
C35_AlwaysOnlyInTheClosure ==
  \A k \in DOMAIN steps :
    steps[k].event.type # "$$always" => ~FromAlways(steps[k])

\* each step of the last handler starts from the state value and the
\* context that the step before it produced, and the actor holds what the
\* last step produced
StepsFollowOn ==
  /\ \A k \in 1..(Len(steps) - 1) :
       /\ steps[k + 1].before = steps[k].after
       /\ steps[k + 1].context = steps[k].nextContext
  /\ steps # <<>>
       => /\ currentState = steps[Len(steps)].after
          /\ currentContext = steps[Len(steps)].nextContext

\* C36: when a handler returns in which an action sent an event to its own
\* actor, no transition taken in it is lost (every step follows on from the
\* one before, and the actor holds the result of the last), and the timers
\* and invocations are those of the final active node set.
C36_ReentrantSendIsNotLost ==
  (last.op \in EventOps /\ \E i \in DOMAIN log : log[i].action = "sendReady")
    => /\ StepsFollowOn
       /\ TimersAreForActivePaths
       /\ InvokedAreForActivePaths

\* the nodes whose invocations the last handler started and that are not
\* active when it returns
StartedAndLeft == { p \in Range(created) : p \notin ActiveSet(currentState) }

\* C37: when start or a send returns, a node whose invocation was started in
\* it and that has been left since (its child sent an event while being
\* started) has nothing registered or running: no invoked actor, no child
\* that is not stopped, and no pending timer.
C37_NothingLeftOfAStateLeftAtOnce ==
  (last.op \in {"start", "send"})
    => \A p \in StartedAndLeft :
         /\ ~HasKey(invokedActors, p)
         /\ \A h \in DOMAIN children : children[h].path = p => children[h].stopped
         /\ ~HasKey(delayedTransitions, p)

\* the nodes that step k of the last handler added to the active node set
JoinedAt(k) ==
  { p \in ActiveSet(steps[k].after) \ ActiveSet(steps[k].before) : HasNode(machine, p) }

\* C38: every node that a step adds to the active node set is entered in
\* that step, and each of its entry actions runs in it; this includes the
\* regions of a parallel state that the target did not name.
C38_EveryNewNodeIsEntered ==
  \A k \in DOMAIN steps :
    \A p \in JoinedAt(k) :
      /\ p \in Range(steps[k].entered)
      /\ \A n \in DOMAIN getStateNodeByPath(machine, p).entry :
           \E i \in DOMAIN log :
             /\ log[i].micro = k /\ log[i].phase = "entry" /\ log[i].path = p
             /\ log[i].action = getStateNodeByPath(machine, p).entry[n]

\* the steps of the last handler that the eventless closure took from an
\* `always` descriptor without a target
TargetlessAlways ==
  { k \in DOMAIN steps : steps[k].event.type = "$$always" /\ ~steps[k].hasTarget }

\* C39: in one handler an `always` descriptor without a target is taken at
\* most once from a node, it leaves the state value as it was, and each of
\* its actions has run once.
C39_TargetlessAlwaysRunsOnce ==
  /\ \A k \in TargetlessAlways : steps[k].after = steps[k].before
  /\ \A k, j \in TargetlessAlways : steps[k].fromPath = steps[j].fromPath => k = j
  /\ \A k \in TargetlessAlways :
       Cardinality({ i \in DOMAIN log : log[i].phase = "transition"
                                          /\ log[i].path = steps[k].fromPath }) <= 1

\* the compound and parallel nodes that a step exited
ExitedWithChildren(step) ==
  { p \in Range(step.exited) :
      HasNode(machine, p) /\ HasStates(getStateNodeByPath(machine, p)) }

\* C40: after a handler whose last step was a root-level transition, the
\* history store holds, for every compound or parallel node that the step
\* exited, the sub-configuration the node had when it was exited.
C40_GlobalExitRecordsHistory ==
  (steps # <<>> /\ steps[Len(steps)].global)
    => \A p \in ExitedWithChildren(steps[Len(steps)]) :
         /\ p \in DOMAIN historyValue
         /\ historyValue[p] = getValueAtPath(steps[Len(steps)].before, p)

====
